---------------------------- MODULE Spec2Model ----------------------------
(***************************************************************************)
(* A model of l4g: the Record attribute store (inline array + overflow     *)
(* slice with Go slice aliasing), and the SimpleHandler snapshot chain.    *)
(*                                                                         *)
(* Go slices are modelled as headers [arr, len, cap] over a heap of        *)
(* backing arrays, so that two headers over one array alias exactly as in  *)
(* Go.  Strings that the code concatenates are sequences of tokens.        *)
(***************************************************************************)
EXTENDS Integers, Sequences, FiniteSets

VARIABLES
    heap,      \* backing arrays of []Attr: heap[id] is a sequence of cap Attrs
    recs,      \* the Record values in scope: name -> Record
    rel,       \* how record "c" was obtained from "r": none | clone | shallow
    log,       \* per record: the non-empty-group attributes appended, in order
    last,      \* the last operation: [op, rec, attrs, occupied]
    visit,     \* the outcome of the last Record.Attrs call
    gheap,     \* backing arrays of []string: the storage of the group stacks
    hs,        \* the SimpleHandlers allocated so far, in order of allocation
    ls,        \* the Loggers allocated so far: ls[i] is the handler of logger i
    calls,     \* the Handle calls in progress: call -> its position
    ret,       \* what the last handler / logger operation returned or wrote
    levelVar,  \* the LevelVar of the logger family: its atomic value
    outputVar, \* the OutputVar of the logger family: [ready, writer]
    chans,     \* the named loggers: the registry and the Channel calls in progress
    pool,      \* bufPool, and the buffers the running calls hold
    sets,      \* the OutputVar method calls in progress, one per goroutine
    parse,     \* the argsToAttrSlice call in progress: its loop variables
    fam        \* the loggers of several New calls: the cells and who points at them

recVars == <<heap, recs, rel, log, last, visit>>

cellVars == <<levelVar, outputVar>>

handlerVars == <<gheap, hs, ls, calls, ret, levelVar, outputVar>>

goVars == <<chans, pool, sets, parse, fam>>

vars == <<heap, recs, rel, log, last, visit, gheap, hs, ls, calls, ret, levelVar,
          outputVar, chans, pool, sets, parse, fam>>

----------------------------------------------------------------------------
(* Bounds of the model.                                                    *)

MaxAttrs == 7       \* a call is made only while NumAttrs + len(args) <= MaxAttrs
MaxArgs == 2        \* longest argument list of one AddAttrs / Add call
MaxBelow == 1       \* a copy is taken of a record at most MaxBelow short of nAttrsInline
MaxHandlers == 6    \* handlers allocated in one run of the derivation model
MaxBack == 2        \* a derivation starts from one of the last MaxBack handlers
MaxLoggers == 3     \* loggers allocated in one run of the logger model
MaxCalls == 2       \* Handle calls that run at the same time

----------------------------------------------------------------------------
(* Attr and slog.Value.                                                    *)

nAttrsInline == 5

badKey == "!BADKEY"

bugKey == "!BUG"

\* Attr{}: empty key, zero Value (kind Any holding nil).
ZeroAttr == [Key |-> "", kind |-> "Any", str |-> "", group |-> <<>>]

String(key, value) == [Key |-> key, kind |-> "String", str |-> value, group |-> <<>>]

Group(key, attrs) == [Key |-> key, kind |-> "Group", str |-> "", group |-> attrs]

\* An item of an args ...any list: a string, an Attr, an int or nil.
StrItem(s) == [tag |-> "string", s |-> s, attr |-> ZeroAttr]

AttrItem(a) == [tag |-> "attr", s |-> "", attr |-> a]

IntItem(s) == [tag |-> "int", s |-> s, attr |-> ZeroAttr]

NilItem == [tag |-> "nil", s |-> "", attr |-> ZeroAttr]

\* Any(key, value): slog.AnyValue picks the kind from the dynamic type; an
\* Attr stored as a value is an opaque any, not a group.
Any(key, item) ==
    CASE item.tag = "string" -> String(key, item.s)
      [] item.tag = "int" -> [Key |-> key, kind |-> "Int64", str |-> item.s, group |-> <<>>]
      [] item.tag = "attr" -> [Key |-> key, kind |-> "Any", str |-> "Attr", group |-> <<item.attr>>]
      [] OTHER -> [Key |-> key, kind |-> "Any", str |-> "", group |-> <<>>]

isEmptyAttr(a) == a.Key = "" /\ a.kind = "Any" /\ a.str = "" /\ a.group = <<>>

isEmptyGroup(a) == a.kind = "Group" /\ Len(a.group) = 0

RECURSIVE countEmptyGroups(_)
countEmptyGroups(as) ==
    IF as = <<>> THEN 0
    ELSE (IF isEmptyGroup(Head(as)) THEN 1 ELSE 0) + countEmptyGroups(Tail(as))

RECURSIVE countAttrsFrom(_, _)
countAttrsFrom(args, i) ==
    IF i > Len(args) THEN 0
    ELSE 1 + countAttrsFrom(args, IF args[i].tag = "string" THEN i + 2 ELSE i + 1)

countAttrs(args) == countAttrsFrom(args, 1)

argsToAttr_KeyOnly(args) ==
    LET x == args[1] IN
    CASE x.tag = "string" -> [attr |-> String(badKey, x.s), rest |-> Tail(args)]
      [] x.tag = "attr" -> [attr |-> x.attr, rest |-> Tail(args)]
      [] OTHER -> [attr |-> Any(badKey, x), rest |-> Tail(args)]

argsToAttr(args) ==
    LET x == args[1] IN
    CASE x.tag = "string" ->
            IF Len(args) = 1
            THEN [attr |-> String(badKey, x.s), rest |-> <<>>]
            ELSE [attr |-> Any(x.s, args[2]), rest |-> SubSeq(args, 3, Len(args))]
      [] x.tag = "attr" -> [attr |-> x.attr, rest |-> Tail(args)]
      [] OTHER -> [attr |-> Any(badKey, x), rest |-> Tail(args)]

RECURSIVE argsToAttrSlice(_)
argsToAttrSlice(args) ==
    IF Len(args) = 0 THEN <<>>
    ELSE LET p == argsToAttr(args) IN <<p.attr>> \o argsToAttrSlice(p.rest)

----------------------------------------------------------------------------
(* Go slices of Attr over the heap of backing arrays.                      *)

NilSlice == [arr |-> 0, len |-> 0, cap |-> 0]

RECURSIVE Zeros(_)
Zeros(n) == IF n <= 0 THEN <<>> ELSE Append(Zeros(n - 1), ZeroAttr)

\* runtime growslice for small element counts: double, or the needed length.
GrowCap(oldCap, newLen) == IF newLen > 2 * oldCap THEN newLen ELSE 2 * oldCap

Elems(h, s) == IF s.len = 0 THEN <<>> ELSE SubSeq(h[s.arr], 1, s.len)

Whole(h, s) == IF s.cap = 0 THEN <<>> ELSE SubSeq(h[s.arr], 1, s.cap)

\* slices.Clip(s) = s[:len(s):len(s)]
Clip(s) == [s EXCEPT !.cap = s.len]

\* make([]Attr, 0, c)
MakeSlice(h, c) ==
    [heap |-> Append(h, Zeros(c)),
     s |-> [arr |-> Len(h) + 1, len |-> 0, cap |-> c]]

\* append(s, a)
AppendOne(h, s, a) ==
    IF s.len < s.cap
    THEN [heap |-> [h EXCEPT ![s.arr][s.len + 1] = a],
          s |-> [s EXCEPT !.len = s.len + 1]]
    ELSE LET c == GrowCap(s.cap, s.len + 1) IN
         [heap |-> Append(h, Elems(h, s) \o <<a>> \o Zeros(c - s.len - 1)),
          s |-> [arr |-> Len(h) + 1, len |-> s.len + 1, cap |-> c]]

\* slices.Grow(s, n) = append(s[:cap(s)], make([]S, n-(cap-len))...)[:len(s)]
Grow(h, s, n) ==
    LET need == n - (s.cap - s.len) IN
    IF need <= 0 THEN [heap |-> h, s |-> s]
    ELSE LET c == GrowCap(s.cap, s.cap + need) IN
         [heap |-> Append(h, Whole(h, s) \o Zeros(c - s.cap)),
          s |-> [arr |-> Len(h) + 1, len |-> s.len, cap |-> c]]

----------------------------------------------------------------------------
(* Record.                                                                 *)

\* NewRecord leaves Prefix at its zero value; the message is set by the caller.
NewRecord ==
    [Prefix |-> <<>>, Message |-> "", front |-> Zeros(nAttrsInline), nFront |-> 0,
     back |-> NilSlice]

NumAttrs(r) == r.nFront + r.back.len

Clone_NoClip(r) == r

\* The copy Clone returns; the receiver is passed by value.
Clone(r) == [r EXCEPT !.back = Clip(r.back)]

\* A plain Go assignment c := r.
ShallowCopy(r) == r

RECURSIVE AddAttrsFront_StopEarly(_, _, _)
AddAttrsFront_StopEarly(r, attrs, i) ==
    IF i < Len(attrs) /\ r.nFront < nAttrsInline - 1
    THEN LET a == attrs[i + 1] IN
         IF isEmptyGroup(a)
         THEN AddAttrsFront_StopEarly(r, attrs, i + 1)
         ELSE AddAttrsFront_StopEarly([r EXCEPT !.front[r.nFront + 1] = a,
                                                !.nFront = r.nFront + 1], attrs, i + 1)
    ELSE [rec |-> r, i |-> i]

\* The first loop of AddAttrs: fill the inline array.
RECURSIVE AddAttrsFront(_, _, _)
AddAttrsFront(r, attrs, i) ==
    IF i < Len(attrs) /\ r.nFront < nAttrsInline
    THEN LET a == attrs[i + 1] IN
         IF isEmptyGroup(a)
         THEN AddAttrsFront(r, attrs, i + 1)
         ELSE AddAttrsFront([r EXCEPT !.front[r.nFront + 1] = a,
                                      !.nFront = r.nFront + 1], attrs, i + 1)
    ELSE [rec |-> r, i |-> i]

\* The check for a copy modified behind the record's back.
NextSlotOccupied(h, s) == s.cap > s.len /\ ~isEmptyAttr(h[s.arr][s.len + 1])

BugAttr == String(bugKey, "AddAttrs unsafely called on copy of Record made without using Record.Clone")

AddAttrsCheck_NoClip(h, s) ==
    IF NextSlotOccupied(h, s)
    THEN AppendOne(h, s, BugAttr)
    ELSE [heap |-> h, s |-> s]

AddAttrsCheck(h, s) ==
    IF NextSlotOccupied(h, s)
    THEN AppendOne(h, Clip(s), BugAttr)
    ELSE [heap |-> h, s |-> s]

RECURSIVE AddAttrsBack_NoSkip(_, _, _)
AddAttrsBack_NoSkip(h, s, rest) ==
    IF rest = <<>> THEN [heap |-> h, s |-> s]
    ELSE LET p == AppendOne(h, s, Head(rest)) IN
         AddAttrsBack_NoSkip(p.heap, p.s, Tail(rest))

\* The last loop of AddAttrs: append what is left, skipping empty groups.
RECURSIVE AddAttrsBack(_, _, _)
AddAttrsBack(h, s, rest) ==
    IF rest = <<>> THEN [heap |-> h, s |-> s]
    ELSE IF isEmptyGroup(Head(rest))
         THEN AddAttrsBack(h, s, Tail(rest))
         ELSE LET p == AppendOne(h, s, Head(rest)) IN
              AddAttrsBack(p.heap, p.s, Tail(rest))

AddAttrs(h, r, attrs) ==
    LET f == AddAttrsFront(r, attrs, 0)
        rest == SubSeq(attrs, f.i + 1, Len(attrs))
        c == AddAttrsCheck(h, f.rec.back)
        ne == countEmptyGroups(rest)
        g == Grow(c.heap, c.s, Len(rest) - ne)
        b == AddAttrsBack(g.heap, g.s, rest)
    IN [heap |-> b.heap, rec |-> [f.rec EXCEPT !.back = b.s]]

RECURSIVE Add(_, _, _)
Add(h, r, args) ==
    IF Len(args) = 0 THEN [heap |-> h, rec |-> r]
    ELSE LET p == argsToAttr(args)
             a == p.attr
         IN IF isEmptyGroup(a) THEN Add(h, r, p.rest)
            ELSE IF r.nFront < nAttrsInline
            THEN Add(h, [r EXCEPT !.front[r.nFront + 1] = a,
                                  !.nFront = r.nFront + 1], p.rest)
            ELSE LET m == IF r.back.arr = 0
                          THEN MakeSlice(h, countAttrs(p.rest) + 1)
                          ELSE [heap |-> h, s |-> r.back]
                     q == AppendOne(m.heap, m.s, a)
                 IN Add(q.heap, [r EXCEPT !.back = q.s], p.rest)

\* What iterating the record yields when the visitor never stops it.
View(h, r) == SubSeq(r.front, 1, r.nFront) \o Elems(h, r.back)

\* Record.Attrs with a visitor that returns false on its k-th invocation
\* (k = 0: never).  seen is the sequence of attributes handed to the visitor.
RECURSIVE AttrsFrontLoop(_, _, _, _)
AttrsFrontLoop(r, i, k, seen) ==
    IF i < r.nFront
    THEN LET s2 == Append(seen, r.front[i + 1]) IN
         IF Len(s2) = k THEN [seen |-> s2, returned |-> TRUE]
         ELSE AttrsFrontLoop(r, i + 1, k, s2)
    ELSE [seen |-> seen, returned |-> FALSE]

RECURSIVE AttrsBackLoop(_, _, _, _)
AttrsBackLoop(b, i, k, seen) ==
    IF i < Len(b)
    THEN LET s2 == Append(seen, b[i + 1]) IN
         IF Len(s2) = k THEN s2 ELSE AttrsBackLoop(b, i + 1, k, s2)
    ELSE seen

AttrsAfterFront_Break(h, r, k, f) == AttrsBackLoop(Elems(h, r.back), 0, k, f.seen)

AttrsAfterFront(h, r, k, f) ==
    IF f.returned THEN f.seen ELSE AttrsBackLoop(Elems(h, r.back), 0, k, f.seen)

Attrs(h, r, k) == AttrsAfterFront(h, r, k, AttrsFrontLoop(r, 0, k, <<>>))

----------------------------------------------------------------------------
(* SimpleHandler.  Text is a sequence of tokens; a handler's groups field  *)
(* is a []string header over gheap.                                        *)

LevelTrace == 1

LevelDebug == 2

LevelInfo == 3

LevelWarn == 4

LevelError == 5

LevelPanic == 6

LevelFatal == 7

\* io.Writer values: two buffers of one concrete type, a file of another,
\* io.Discard, and the nil interface.
DiscardWriter == "io.Discard"

NilWriter == "nil"

Writers == {"buf1", "buf2", "file"}

TypeOf(w) ==
    CASE w \in {"buf1", "buf2"} -> "*bytes.Buffer"
      [] w = "file" -> "*os.File"
      [] w = DiscardWriter -> "io.discard"
      [] OTHER -> "nil"

\* The zero OutputVar: ready false, nothing stored in the atomic.Value.  given
\* is not a field of the code: it remembers the argument of the last Set.
ZeroOutputVar == [ready |-> FALSE, writer |-> "unset", given |-> "unset"]

\* atomic.Value.Store(w) panics on nil and on a value whose concrete type
\* differs from the one stored first; the value stored before stays.
StorePanics(v, w) ==
    w = NilWriter \/ (v.writer # "unset" /\ TypeOf(v.writer) # TypeOf(w))

\* OutputVar.Set: the ready flag is stored first, then the writer.
OutputVar_Set(v, w) ==
    [v |-> [ready |-> (w # NilWriter /\ w # DiscardWriter),
            writer |-> IF StorePanics(v, w) THEN v.writer ELSE w,
            given |-> w],
     panicked |-> StorePanics(v, w)]

NewOutputVar(w) == OutputVar_Set(ZeroOutputVar, w).v

Discard(v) == ~v.ready

Output(v) == IF Discard(v) THEN DiscardWriter ELSE v.writer

\* A Leveler in HandlerOptions: none, the logger's LevelVar, or a fixed Level.
NilLeveler == [kind |-> "nil", level |-> 0]

VarLeveler == [kind |-> "var", level |-> 0]

FixedLeveler(l) == [kind |-> "level", level |-> l]

\* The io.Writer in HandlerOptions: the logger's OutputVar, or a writer.
VarOutput == [kind |-> "var", w |-> ""]

WriterOutput(w) == [kind |-> "writer", w |-> w]

\* The HandlerOptions New passes to NewHandlerFunc.
DefaultOptions(rep) ==
    [ReplaceAttr |-> rep, Replace |-> "same", Level |-> VarLeveler, Output |-> VarOutput,
     NoColor |-> TRUE]

RECURSIVE ZeroStrs(_)
ZeroStrs(n) == IF n <= 0 THEN <<>> ELSE Append(ZeroStrs(n - 1), "")

\* append(groups, name) on a []string
appendStr(g, s, name) ==
    IF s.len < s.cap
    THEN [heap |-> [g EXCEPT ![s.arr][s.len + 1] = name],
          s |-> [s EXCEPT !.len = s.len + 1]]
    ELSE LET c == GrowCap(s.cap, s.len + 1) IN
         [heap |-> Append(g, Elems(g, s) \o <<name>> \o ZeroStrs(c - s.len - 1)),
          s |-> [arr |-> Len(g) + 1, len |-> s.len + 1, cap |-> c]]

\* ReplaceAttr is TRUE when HandlerOptions.ReplaceAttr is set, and Replace then
\* names the function it is set to.
NewSimpleHandler(opts) ==
    [attrsPrefix |-> <<>>, groupPrefix |-> <<>>, groups |-> NilSlice,
     prefix |-> <<>>, opts |-> opts]

clone(h) ==
    [attrsPrefix |-> h.attrsPrefix, groupPrefix |-> h.groupPrefix,
     groups |-> h.groups, prefix |-> h.prefix, opts |-> h.opts]

\* The arguments of one appendAttr invocation.  path is the group path the
\* invocation was entered with: the names its groups argument held then.
Frame(attr, groupsPrefix, groups, path) ==
    [attr |-> attr, groupsPrefix |-> groupsPrefix, groups |-> groups, path |-> path]

RECURSIVE Frames(_, _, _, _)
Frames(attrs, groupsPrefix, groups, path) ==
    IF attrs = <<>> THEN <<>>
    ELSE <<Frame(Head(attrs), groupsPrefix, groups, path)>>
         \o Frames(Tail(attrs), groupsPrefix, groups, path)

\* One invocation of appendAttr, the first of st.todo: a group-valued
\* attribute appends its key to groups and queues its members, any other
\* attribute goes through ReplaceAttr (which is handed groups) and is written.
\* Text.  A string is one token, or a sequence of tokens when it is put
\* together from parts; a written line is the sequence of the tokens written.
\* Two strings stand for the texts with bytes that matter to a line: NLText
\* holds a newline, EscText an ANSI escape sequence (ESC stands for the byte
\* 0x1b) before the letters "red".
NLText == "two\nlines"

EscText == "ESC[31mred"

ansiReset == "ESC[0m"

ansiFaint == "ESC[2m"

ansiResetFaint == "ESC[22m"

ansiBrightRed == "ESC[91m"

ansiBrightGreen == "ESC[92m"

ansiBrightYellow == "ESC[93m"

ansiBrightCyan == "ESC[96m"

ansiGray == "ESC[90m"

ansiWhite == "ESC[97m"

\* cut with the filter of appendString: the bytes from ESC up to the next
\* letter are dropped.
cut(s) == IF s = EscText THEN "red" ELSE s

\* fmt.Sprintf("!PANIC: %v", r) for a panic with the value "boom".
PanicText == "!PANIC: boom"

\* What fmt writes for a value whose String method panics with "boom".
FmtPanicText == "%!v(PANIC=String method: boom)"

\* The empty string, a space and control bytes other than ESC need quoting;
\* ESC is in safeSet.
needsQuoting(s) == s = "" \/ s \in {NLText, PanicText, FmtPanicText}

\* strconv.Quote, without the quotes around the result.
Quoted(s) ==
    CASE s = NLText -> "two\\nlines"
      [] s = EscText -> "\\x1b[31mred"
      [] OTHER -> s

\* strings.ReplaceAll(s, `\x1b`, ESC)
ReplaceAllEsc(s) == IF s = "\\x1b[31mred" THEN EscText ELSE s

\* appendString: what is written for the string made of the parts s.
appendString(s, quote, color) ==
    LET t == IF quote /\ ~color THEN [i \in DOMAIN s |-> cut(s[i])] ELSE s
        q == quote /\ ((\A i \in DOMAIN t : t[i] = "") \/ (\E i \in DOMAIN t : needsQuoting(t[i])))
    IN CASE color /\ q -> <<"\"">> \o [i \in DOMAIN t |-> ReplaceAllEsc(Quoted(t[i]))] \o <<"\"">>
         [] ~color /\ q -> <<"\"">> \o [i \in DOMAIN t |-> Quoted(t[i])] \o <<"\"">>
         [] OTHER -> t

appendKey(opts, key, groups) ==
    appendString(groups \o <<key>>, TRUE, ~opts.NoColor) \o <<"=">>

\* Any(key, v) for a v with a MarshalText method, and for a v with a String
\* method and no MarshalText.  does is what the method does: it returns the
\* text does, or returns an error ("err"), or panics with "boom", or v is a
\* nil pointer and the method panics on it ("nilptr").
TextMarshaler(key, does) == [Key |-> key, kind |-> "TextMarshaler", str |-> does, group |-> <<>>]

Stringer(key, does) == [Key |-> key, kind |-> "Stringer", str |-> does, group |-> <<>>]

\* The panic that reaches the deferred function of the KindAny case: one
\* raised by MarshalText.  fmt recovers those of the methods it calls.
Panics(a) == a.kind = "TextMarshaler" /\ a.str \in {"boom", "nilptr"}

\* fmt.Sprintf("%+v", cv) for a cv with a String method.
Sprintf(a) ==
    CASE a.str = "boom" -> FmtPanicText
      [] a.str = "nilptr" -> "<nil>"
      [] OTHER -> a.str

\* The deferred function of the KindAny case after a panic.
Recovered(opts, a) ==
    IF a.str = "nilptr" THEN <<"<nil>">>
    ELSE appendString(<<PanicText>>, TRUE, ~opts.NoColor)

appendValue_PanicAsNil(opts, a, quote) ==
    CASE a.kind = "String" -> appendString(<<a.str>>, quote, ~opts.NoColor)
      [] a.kind = "Any" -> appendString(<<IF a.str = "" THEN "<nil>" ELSE a.str>>,
                                        quote, ~opts.NoColor)
      [] a.kind = "TextMarshaler" ->
            IF Panics(a) THEN <<"<nil>">>
            ELSE IF a.str = "err" THEN <<>>
            ELSE appendString(<<a.str>>, quote, ~opts.NoColor)
      [] a.kind = "Stringer" -> appendString(<<Sprintf(a)>>, quote, ~opts.NoColor)
      [] OTHER -> <<a.str>>

\* appendValue: strings and values printed with %+v go through appendString,
\* numbers are written as they are.
appendValue(opts, a, quote) ==
    CASE a.kind = "String" -> appendString(<<a.str>>, quote, ~opts.NoColor)
      [] a.kind = "Any" -> appendString(<<IF a.str = "" THEN "<nil>" ELSE a.str>>,
                                        quote, ~opts.NoColor)
      [] a.kind = "TextMarshaler" ->
            IF Panics(a) THEN Recovered(opts, a)
            ELSE IF a.str = "err" THEN <<>>
            ELSE appendString(<<a.str>>, quote, ~opts.NoColor)
      [] a.kind = "Stringer" -> appendString(<<Sprintf(a)>>, quote, ~opts.NoColor)
      [] OTHER -> <<a.str>>

\* appendTintValue with color < 0.
appendTintValue(opts, s, quote, faint) ==
    IF opts.NoColor THEN appendString(s, quote, FALSE)
    ELSE (IF faint THEN <<ansiFaint>> ELSE <<>>)
         \o appendString(s, quote, TRUE)
         \o (IF faint THEN <<ansiReset>> ELSE <<>>)

\* The key, the value and the space appendAttr writes for attribute a under
\* the group prefix groups (color < 0).
appendKeyValue(opts, a, groups) ==
    IF opts.NoColor
    THEN appendKey(opts, a.Key, groups) \o appendValue(opts, a, TRUE) \o <<" ">>
    ELSE <<ansiFaint>> \o appendKey(opts, a.Key, groups) \o <<ansiReset>>
         \o appendValue(opts, a, TRUE) \o <<" ">>

TimeKey == "time"

LevelKey == "level"

MessageKey == "msg"

PrefixKey == "prefix"

\* The function ReplaceAttr is set to, called with the group path groups and
\* the attribute a: one that returns a, one that puts "***" for the value of
\* "k", one that returns Attr{} for "k" and for the message, and one that
\* returns a group for "k".
replaceAttr(opts, groups, a) ==
    CASE opts.Replace = "mask" /\ a.Key = "k" -> String("k", "***")
      [] opts.Replace = "drop" /\ a.Key \in {"k", MessageKey} -> ZeroAttr
      [] opts.Replace = "group" /\ a.Key = "k" -> Group("r", <<String("m", "n")>>)
      [] OTHER -> a

appendAttr_SharedPath(g, opts, st) ==
    LET rep == opts.ReplaceAttr
        f == Head(st.todo)
        rest == Tail(st.todo)
        called == rep /\ f.attr.kind # "Group"
        a == IF called THEN replaceAttr(opts, Elems(g, f.groups), f.attr) ELSE f.attr
        seen == IF called
                THEN Append(st.seen, [got |-> Elems(g, f.groups), want |-> f.path,
                                      attr |-> f.attr, out |-> a])
                ELSE st.seen
        top == IF f.groups.len > 0 /\ Len(f.groupsPrefix) >= 2
               THEN SubSeq(f.groupsPrefix, 1, Len(f.groupsPrefix) - 2)
                    \o <<Elems(g, f.groups)[f.groups.len], ".">>
               ELSE f.groupsPrefix
    IN IF isEmptyAttr(a)
       THEN [gheap |-> g, st |-> [todo |-> rest, buf |-> st.buf, seen |-> seen]]
       ELSE IF a.kind = "Group"
       THEN LET named == a.Key # ""
                p == IF named THEN appendStr(g, f.groups, a.Key)
                     ELSE [heap |-> g, s |-> f.groups]
                gp == IF named THEN f.groupsPrefix \o <<a.Key, ".">> ELSE f.groupsPrefix
                pa == IF named THEN Append(f.path, a.Key) ELSE f.path
            IN [gheap |-> p.heap,
                st |-> [todo |-> Frames(a.group, gp, p.s, pa) \o rest,
                        buf |-> st.buf, seen |-> seen]]
       ELSE [gheap |-> g,
             st |-> [todo |-> rest,
                     buf |-> st.buf \o appendKeyValue(opts, a, top),
                     seen |-> seen]]

appendAttr(g, opts, st) ==
    LET rep == opts.ReplaceAttr
        f == Head(st.todo)
        rest == Tail(st.todo)
        called == rep /\ f.attr.kind # "Group"
        a == IF called THEN replaceAttr(opts, Elems(g, f.groups), f.attr) ELSE f.attr
        seen == IF called
                THEN Append(st.seen, [got |-> Elems(g, f.groups), want |-> f.path,
                                      attr |-> f.attr, out |-> a])
                ELSE st.seen
    IN IF isEmptyAttr(a)
       THEN [gheap |-> g, st |-> [todo |-> rest, buf |-> st.buf, seen |-> seen]]
       ELSE IF a.kind = "Group"
       THEN LET named == a.Key # ""
                p == IF named THEN appendStr(g, f.groups, a.Key)
                     ELSE [heap |-> g, s |-> f.groups]
                gp == IF named THEN f.groupsPrefix \o <<a.Key, ".">> ELSE f.groupsPrefix
                pa == IF named THEN Append(f.path, a.Key) ELSE f.path
            IN [gheap |-> p.heap,
                st |-> [todo |-> Frames(a.group, gp, p.s, pa) \o rest,
                        buf |-> st.buf, seen |-> seen]]
       ELSE [gheap |-> g,
             st |-> [todo |-> rest,
                     buf |-> st.buf \o appendKeyValue(opts, a, f.groupsPrefix),
                     seen |-> seen]]

\* The loop over the attributes, run to its end.
RECURSIVE appendAttrs(_, _, _)
appendAttrs(g, opts, st) ==
    IF st.todo = <<>> THEN [gheap |-> g, st |-> st]
    ELSE LET n == appendAttr(g, opts, st) IN appendAttrs(n.gheap, opts, n.st)

\* The state of a rendering that starts with buf written, on the attributes
\* attrs, for handler h.
Rendering(g, h, attrs, buf) ==
    [todo |-> Frames(attrs, h.groupPrefix, h.groups, Elems(g, h.groups)),
     buf |-> buf, seen |-> <<>>]

\* With* return either the receiver (same) or a new handler h.
WithAttrs(g, h, attrs) ==
    IF Len(attrs) = 0 THEN [gheap |-> g, same |-> TRUE, h |-> h]
    ELSE LET r == appendAttrs(g, h.opts, Rendering(g, h, attrs, <<>>))
             h2 == clone(h)
         IN [gheap |-> r.gheap, same |-> FALSE,
             h |-> [h2 EXCEPT !.attrsPrefix = h.attrsPrefix \o r.st.buf]]

WithGroup(g, h, name) ==
    IF name = "" THEN [gheap |-> g, same |-> TRUE, h |-> h]
    ELSE LET h2 == clone(h)
             p == appendStr(g, h2.groups, name)
         IN [gheap |-> p.heap, same |-> FALSE,
             h |-> [h2 EXCEPT !.groupPrefix = h2.groupPrefix \o <<name, ".">>,
                              !.groups = p.s]]

WithPrefix_Inner(g, h, prefix) ==
    IF prefix = "" THEN [gheap |-> g, same |-> TRUE, h |-> h]
    ELSE LET h2 == clone(h) IN
         [gheap |-> g, same |-> FALSE,
          h |-> [h2 EXCEPT !.prefix = h2.prefix \o <<prefix>>]]

WithPrefix(g, h, prefix) ==
    IF prefix = "" THEN [gheap |-> g, same |-> TRUE, h |-> h]
    ELSE LET h2 == clone(h) IN
         [gheap |-> g, same |-> FALSE,
          h |-> [h2 EXCEPT !.prefix = IF h2.prefix = <<>> THEN <<prefix>>
                                      ELSE <<prefix>> \o h2.prefix]]

\* SimpleHandler.Enabled; lvl is the value of the logger's LevelVar.
minLevel(h, lvl) ==
    CASE h.opts.Level.kind = "nil" -> LevelInfo
      [] h.opts.Level.kind = "var" -> lvl
      [] OTHER -> h.opts.Level.level

Enabled_InfoOnly(h, lvl, v) == v >= LevelInfo

Enabled(h, lvl, v) == v >= minLevel(h, lvl)

LevelText(v) ==
    CASE v = LevelTrace -> "TRC"
      [] v = LevelDebug -> "DBG"
      [] v = LevelInfo -> "INF"
      [] v = LevelWarn -> "WRN"
      [] v = LevelError -> "ERR"
      [] v = LevelPanic -> "PNL"
      [] OTHER -> "FTL"

\* appendTintLevel with color < 0: the colour of the level.
LevelColor(v) ==
    CASE v = LevelTrace -> ansiGray
      [] v = LevelDebug -> ansiBrightCyan
      [] v = LevelInfo -> ansiWhite
      [] v = LevelWarn -> ansiBrightGreen
      [] v = LevelError -> ansiBrightYellow
      [] v = LevelPanic -> ansiBrightRed
      [] OTHER -> IF v <= LevelTrace THEN ansiGray ELSE ansiBrightRed

appendTintLevel(opts, v) ==
    IF opts.NoColor THEN <<LevelText(v)>>
    ELSE <<LevelColor(v), LevelText(v), ansiReset>>

\* appendTintTime with color < 0; "time" is the formatted time.
appendTintTime(opts) ==
    IF opts.NoColor THEN <<"time">> ELSE <<ansiFaint, "time", ansiReset>>

\* Handle up to the record's attributes: time, level, prefix, message and the
\* handler's pre-rendered attributes.
HandleHead_LevelFirst(h, r, level) ==
    appendTintLevel(h.opts, level) \o <<" ">>
    \o appendTintTime(h.opts) \o <<" ">>
    \o (IF r.Prefix # <<>>
        THEN (IF h.opts.ReplaceAttr THEN appendTintValue(h.opts, r.Prefix, FALSE, TRUE)
              ELSE <<"[">> \o r.Prefix \o <<"]">>)
             \o <<" ">>
        ELSE <<>>)
    \o (IF h.opts.ReplaceAttr THEN appendTintValue(h.opts, <<r.Message>>, FALSE, FALSE)
        ELSE <<r.Message>>)
    \o <<" ">>
    \o h.attrsPrefix

HandleHead_AttrsFirst(h, r, level) ==
    appendTintTime(h.opts) \o <<" ">>
    \o appendTintLevel(h.opts, level) \o <<" ">>
    \o (IF r.Prefix # <<>>
        THEN (IF h.opts.ReplaceAttr THEN appendTintValue(h.opts, r.Prefix, FALSE, TRUE)
              ELSE <<"[">> \o r.Prefix \o <<"]">>)
             \o <<" ">>
        ELSE <<>>)
    \o h.attrsPrefix
    \o (IF h.opts.ReplaceAttr THEN appendTintValue(h.opts, <<r.Message>>, FALSE, FALSE)
        ELSE <<r.Message>>)
    \o <<" ">>

\* The attributes Handle makes of the time, the level, the prefix and the
\* message when ReplaceAttr is set; the level is an any that holds a Level.
TimeAttr == [Key |-> TimeKey, kind |-> "Time", str |-> "time", group |-> <<>>]

LevelAttr(v) == [Key |-> LevelKey, kind |-> "Level", str |-> LevelText(v), group |-> <<>>]

PrefixAttr(r) == [Key |-> PrefixKey, kind |-> "String", str |-> r.Prefix, group |-> <<>>]

MessageAttr(r) == [Key |-> MessageKey, kind |-> "String", str |-> <<r.Message>>, group |-> <<>>]

\* A value appendTintValue is given in Handle, as text.
HeadText(a) == IF a.Key \in {PrefixKey, MessageKey} THEN a.str ELSE <<a.str>>

\* One of the four fields with ReplaceAttr set: nothing when the key that came
\* back is empty; own is what is written for a value of the field's own kind.
HeadField(opts, a, own, faint) ==
    LET b == replaceAttr(opts, <<>>, a) IN
    IF b.Key = "" THEN <<>>
    ELSE (IF b.kind = a.kind /\ a.kind \in {"Time", "Level"} THEN own
          ELSE appendTintValue(opts, HeadText(b), FALSE, faint))
         \o <<" ">>

\* The calls of ReplaceAttr Handle makes for these fields, all with nil groups.
HeadCall(opts, a) ==
    [got |-> <<>>, want |-> <<>>, attr |-> a, out |-> replaceAttr(opts, <<>>, a)]

HandleHeadSeen(h, r, level) ==
    IF ~h.opts.ReplaceAttr THEN <<>>
    ELSE <<HeadCall(h.opts, TimeAttr), HeadCall(h.opts, LevelAttr(level))>>
         \o (IF r.Prefix # <<>> THEN <<HeadCall(h.opts, PrefixAttr(r))>> ELSE <<>>)
         \o <<HeadCall(h.opts, MessageAttr(r))>>

HandleHead(h, r, level) ==
    (IF h.opts.ReplaceAttr
     THEN HeadField(h.opts, TimeAttr, appendTintTime(h.opts), TRUE)
          \o HeadField(h.opts, LevelAttr(level), appendTintLevel(h.opts, level), FALSE)
          \o (IF r.Prefix # <<>> THEN HeadField(h.opts, PrefixAttr(r), <<>>, TRUE) ELSE <<>>)
          \o HeadField(h.opts, MessageAttr(r), <<>>, FALSE)
     ELSE appendTintTime(h.opts) \o <<" ">>
          \o appendTintLevel(h.opts, level) \o <<" ">>
          \o (IF r.Prefix # <<>> THEN <<"[">> \o r.Prefix \o <<"]", " ">> ELSE <<>>)
          \o <<r.Message, " ">>)
    \o h.attrsPrefix

\* The last byte, a space, becomes the newline.
HandleLine(buf) ==
    IF Len(buf) = 0 THEN <<"\n">> ELSE SubSeq(buf, 1, Len(buf) - 1) \o <<"\n">>

\* h.opts.Output.Write(*buf): through the OutputVar to its current writer, or
\* to the handler's own writer.  fail: the writer's Write returns an error
\* (io.Discard never does).
Write(h, o, fail) ==
    LET w == IF h.opts.Output.kind = "var" THEN Output(o) ELSE h.opts.Output.w
    IN [to |-> w, err |-> fail /\ w # DiscardWriter]

\* Handle, run without interruption: the line written, where to, the error
\* returned, and the storage after.  The deferred buf.Free() runs on every
\* return.
Handle_LeakOnError(g, rh, h, r, level, o, fail) ==
    LET a == appendAttrs(g, h.opts, Rendering(g, h, View(rh, r), HandleHead(h, r, level)))
        w == Write(h, o, fail)
    IN [gheap |-> a.gheap, line |-> HandleLine(a.st.buf),
        seen |-> HandleHeadSeen(h, r, level) \o a.st.seen,
        to |-> w.to, err |-> w.err, freed |-> ~w.err]

Handle(g, rh, h, r, level, o, fail) ==
    LET a == appendAttrs(g, h.opts, Rendering(g, h, View(rh, r), HandleHead(h, r, level)))
        w == Write(h, o, fail)
    IN [gheap |-> a.gheap, line |-> HandleLine(a.st.buf),
        seen |-> HandleHeadSeen(h, r, level) \o a.st.seen,
        to |-> w.to, err |-> w.err, freed |-> TRUE]

\* The record Logger.log builds: NewRecord, then AddAttrs when there are args.
logRecord(args, msg) ==
    IF Len(args) > 0
    THEN AddAttrs(<<>>, [NewRecord EXCEPT !.Message = msg], argsToAttrSlice(args))
    ELSE [heap |-> <<>>, rec |-> [NewRecord EXCEPT !.Message = msg]]

\* What Logger.log did when it returned at the gate.
Gated(g) ==
    [gheap |-> g, built |-> FALSE, handled |-> FALSE, wrote |-> FALSE, line |-> <<>>,
     to |-> DiscardWriter, err |-> FALSE, fallback |-> 0, freed |-> FALSE]

\* Logger.log on a logger whose handler is h, with the LevelVar at lvl and the
\* OutputVar o: the gate, the record, Handle, and FallbackErrorf on an error.
Logger_log(g, h, lvl, o, v, msg, args, fail) ==
    IF Discard(o) \/ ~Enabled(h, lvl, v) THEN Gated(g)
    ELSE LET p == logRecord(args, msg)
             w == Handle(g, p.heap, h, p.rec, v, o, fail)
         IN [gheap |-> w.gheap, built |-> TRUE, handled |-> TRUE, wrote |-> TRUE,
             line |-> w.line, to |-> w.to, err |-> w.err,
             fallback |-> IF w.err THEN 1 ELSE 0, freed |-> w.freed]

\* Logger.Panic: l.log(LevelPanic, msg, args), then panic(msg).
Logger_Panic(g, h, lvl, o, msg, args, fail) ==
    [log |-> Logger_log(g, h, lvl, o, LevelPanic, msg, args, fail),
     panicked |-> TRUE, exited |-> 0]

Logger_Fatal_ExitIfLogged(g, h, lvl, o, msg, args, fail) ==
    LET w == Logger_log(g, h, lvl, o, LevelFatal, msg, args, fail)
    IN [log |-> w, panicked |-> FALSE, exited |-> IF w.wrote THEN 1 ELSE 0]

\* Logger.Fatal: l.log(LevelFatal, msg, args), then OsExiter(1); exited is the
\* code OsExiter was called with, 0 when it was not called.
Logger_Fatal(g, h, lvl, o, msg, args, fail) ==
    [log |-> Logger_log(g, h, lvl, o, LevelFatal, msg, args, fail),
     panicked |-> FALSE, exited |-> 1]

\* Logger.With*: the receiver itself (same), or a new Logger over what the
\* handler's With* returned (d).
Logger_WithAttrs(g, h, args) ==
    IF Len(args) = 0 THEN [same |-> TRUE, d |-> [gheap |-> g, same |-> TRUE, h |-> h]]
    ELSE [same |-> FALSE, d |-> WithAttrs(g, h, argsToAttrSlice(args))]

Logger_WithPrefix_Always(g, h, prefix) ==
    [same |-> FALSE, d |-> WithPrefix(g, h, prefix)]

Logger_WithPrefix(g, h, prefix) ==
    IF prefix = "" THEN [same |-> TRUE, d |-> [gheap |-> g, same |-> TRUE, h |-> h]]
    ELSE [same |-> FALSE, d |-> WithPrefix(g, h, prefix)]

Logger_WithGroup(g, h, name) ==
    IF name = "" THEN [same |-> TRUE, d |-> [gheap |-> g, same |-> TRUE, h |-> h]]
    ELSE [same |-> FALSE, d |-> WithGroup(g, h, name)]

\* What a handler is, as a caller can observe it: its fields, the group stack
\* by content.
Snapshot(g, h) ==
    [attrsPrefix |-> h.attrsPrefix, groupPrefix |-> h.groupPrefix,
     groups |-> Elems(g, h.groups), prefix |-> h.prefix]

\* An allocated handler: the object, what it was when it was returned, and the
\* non-empty prefixes applied on the way to it, in order, and the attributes
\* bound on the way to it, in order, each with the group prefix it was bound
\* under.
Allocated(g, h, applied, bound) ==
    [h |-> h, born |-> Snapshot(g, h), applied |-> applied, bound |-> bound]

Bind(groupPrefix, attrs) ==
    [i \in DOMAIN attrs |-> [groups |-> groupPrefix, attr |-> attrs[i]]]

\* A goroutine's Handle call: where it is, its handler, its record's level and
\* attributes (r), and the rendering so far.
Idle == [pc |-> "idle", h |-> 0, level |-> 0, r |-> <<>>,
         st |-> [todo |-> <<>>, buf |-> <<>>, seen |-> <<>>]]

\* The record a Handle call was given: prefix, message, attributes in order.
NoRec == [Prefix |-> <<>>, Message |-> "", attrs |-> <<>>]

LineRec(prefix, msg, attrs) == [Prefix |-> prefix, Message |-> msg, attrs |-> attrs]

NoRet == [op |-> "", kind |-> "", recv |-> 0, res |-> 0, empty |-> FALSE,
          wrote |-> FALSE, line |-> <<>>, seen |-> <<>>, v |-> 0, built |-> FALSE,
          handled |-> FALSE, to |-> DiscardWriter, err |-> FALSE, fallback |-> 0,
          freed |-> FALSE, panicked |-> FALSE, exited |-> 0, arg |-> "",
          r |-> NoRec]

\* New with the options opts: the Logger{level, output, handler} with its
\* LevelVar at lvl, its OutputVar over w, and the handler built from hopts.
NewLogger(lvl, w, hopts) ==
    /\ gheap = <<>>
    /\ hs = <<Allocated(<<>>, NewSimpleHandler(hopts), <<>>, <<>>)>>
    /\ ls = <<1>>
    /\ calls = [c \in 1..MaxCalls |-> Idle]
    /\ ret = NoRet
    /\ levelVar = lvl
    /\ outputVar = NewOutputVar(w)

\* New(out, WithReplaceAttr(...)): one logger over one fresh SimpleHandler.
New(rep) == NewLogger(LevelInfo, "buf1", DefaultOptions(rep))

----------------------------------------------------------------------------
(* Channel: the registry of named loggers, a sync.Map from names to        *)
(* *Logger.  A logger made by NewFunc is the number of the NewFunc call    *)
(* that made it, 0 is no logger.                                           *)

MaxGoroutines == 3  \* goroutines that call at the same time

MaxMade == 3        \* NewFunc calls

ChannelNames == {"app1", "app2"}

Goroutines == 1..MaxGoroutines

\* A goroutine outside Channel; name, new and res are those of its last call.
NotInChannel == [pc |-> "idle", name |-> "", new |-> 0, res |-> 0]

\* made[i] is the name the i-th NewFunc call was given.
NoChannels ==
    [reg |-> [n \in ChannelNames |-> 0], made |-> <<>>,
     go |-> [g \in Goroutines |-> NotInChannel], returned |-> {}]

\* ls.Load(name)
Map_Load(reg, name) == [value |-> reg[name], ok |-> reg[name] # 0]

Map_LoadOrStore_Store(reg, name, new) ==
    [reg |-> [reg EXCEPT ![name] = new], actual |-> new]

\* ls.LoadOrStore(name, new)
Map_LoadOrStore(reg, name, new) ==
    IF reg[name] # 0 THEN [reg |-> reg, actual |-> reg[name]]
    ELSE [reg |-> [reg EXCEPT ![name] = new], actual |-> new]

\* bufPool and the buffers.  A *buffer is the number of the New call that
\* made it; bufs holds the length and the capacity of each, free the buffers
\* in the pool, dropped those Free did not put back, and go what each
\* goroutine's call (Handle or WithAttrs) holds, 0 for none.

MaxBufs == 3  \* calls of bufPool.New

bufferSize == 1024

maxBufferSize == 16384

\* bufPool.New: make(buffer, 0, 1024)
bufPool_New == [len |-> 0, cap |-> bufferSize]

NoCall == [pc |-> "idle", op |-> "", buf |-> 0, n |-> 0]

EmptyPool ==
    [bufs |-> <<>>, free |-> {}, dropped |-> {}, go |-> [g \in Goroutines |-> NoCall]]

\* bufPool.Get() that hands out b, a pooled buffer, or calls New when b = 0.
bufPool_Get(p, b) ==
    IF b = 0
    THEN [p |-> [p EXCEPT !.bufs = Append(@, bufPool_New)], b |-> Len(p.bufs) + 1]
    ELSE [p |-> [p EXCEPT !.free = @ \ {b}], b |-> b]

\* The Write, WriteByte and WriteString calls of one Handle or WithAttrs, n
\* bytes in all: *b = append(*b, ...)
buffer_Write(buf, n) ==
    [len |-> buf.len + n,
     cap |-> IF buf.len + n <= buf.cap THEN buf.cap ELSE GrowCap(buf.cap, buf.len + n)]

buffer_Free_NoLimit(p, b) ==
    [p EXCEPT !.bufs[b].len = 0, !.free = @ \cup {b}]

\* b.Free()
buffer_Free(p, b) ==
    IF p.bufs[b].cap <= maxBufferSize
    THEN [p EXCEPT !.bufs[b].len = 0, !.free = @ \cup {b}]
    ELSE [p EXCEPT !.dropped = @ \cup {b}]

\* The calls of OutputVar methods in progress.  A call of goroutine g is at
\* pc "idle" (none), "writer" (Set has stored the ready flag) or "load"
\* (Output or Write has found the flag set); last is the call that ended
\* last, with what it returned and whether it panicked.
NoSetCall == [pc |-> "idle", op |-> "", w |-> ""]

NoSetRet == [op |-> "", g |-> 0, panicked |-> FALSE, discard |-> FALSE, w |-> ""]

NoSets == [go |-> [g \in Goroutines |-> NoSetCall], last |-> NoSetRet]

\* v.writer.Load().(io.Writer) panics when nothing was stored: Load returns
\* nil and the type assertion fails.
LoadPanics(v) == v.writer = "unset"

\* The zero value of the atomic.Int64 in a LevelVar.
ZeroLevelVar == 0

\* v.Level(): Level(int(v.val.Load()))
LevelVar_Level(val) == val

\* v.Set(l): v.val.Store(int64(l)); the value stored.
LevelVar_Set(val, l) == l

\* Loggers as Go sees them: level[i] is the i-th *LevelVar allocated and
\* output[i] the i-th *OutputVar, user[i] telling that the program made it
\* itself with NewOutputVar; of[l] holds the two pointers of logger l, and
\* root, not a field of the code, the New call it descends from.
MaxFamily == 3    \* loggers made by New and by derivation

MaxUserCells == 1 \* OutputVars the program makes with NewOutputVar

NoLastCall == [op |-> "", l |-> 0, res |-> 0]

NoLoggers == [level |-> <<>>, output |-> <<>>, user |-> <<>>, of |-> <<>>,
              last |-> NoLastCall]

\* An io.Writer handed to New: a plain writer, or the *OutputVar number id.
PlainWriter(w) == [kind |-> "writer", w |-> w, id |-> 0]

OutputVarWriter(id) == [kind |-> "var", w |-> "", id |-> id]

\* ov := NewOutputVar(w), called by the program
UserOutputVar(f, w) ==
    [f EXCEPT !.output = Append(@, NewOutputVar(w)), !.user = Append(@, TRUE)]

\* New(out, WithLevel(lvl)): NewLevelVar of a Level value allocates a
\* LevelVar; NewOutputVar returns out itself when it is an *OutputVar.
Logger_New(f, out, lvl) ==
    LET o == IF out.kind = "var" THEN out.id ELSE Len(f.output) + 1
        g == IF out.kind = "var" THEN f
             ELSE [f EXCEPT !.output = Append(@, NewOutputVar(out.w)),
                            !.user = Append(@, FALSE)]
    IN [g EXCEPT !.level = Append(@, LevelVar_Set(ZeroLevelVar, lvl)),
                 !.of = Append(@, [level |-> Len(f.level) + 1, output |-> o,
                                   root |-> Len(f.of) + 1])]

Logger_With_OwnLevel(f, l, empty) ==
    IF empty THEN f
    ELSE [f EXCEPT !.level = Append(@, f.level[f.of[l].level]),
                   !.of = Append(@, [f.of[l] EXCEPT !.level = Len(f.level) + 1])]

\* l.WithAttrs(args...), l.WithPrefix(prefix), l.WithGroup(name): l itself
\* for no arguments or an empty string, else a Logger with l's pointers.
Logger_With(f, l, empty) ==
    IF empty THEN f
    ELSE [f EXCEPT !.of = Append(@, f.of[l])]

Logger_SetLevel(f, l, lvl) ==
    [f EXCEPT !.level[f.of[l].level] = LevelVar_Set(@, lvl)]

Logger_SetOutput(f, l, w) ==
    [f EXCEPT !.output[f.of[l].output] = OutputVar_Set(@, w).v]

\* The loop of argsToAttrSlice: args is what the call was given, rest the
\* unconsumed portion and attrs the slice built so far.
NotParsing == [pc |-> "idle", args |-> <<>>, rest |-> <<>>, attrs |-> <<>>]

----------------------------------------------------------------------------
(* The Record state machine: one record "r", and at most one copy "c" of   *)
(* it, made either with Clone or by plain assignment.                      *)

KV == String("k", "k")

EmptyGroup == Group("g", <<>>)

AttrPool == {KV, ZeroAttr, EmptyGroup}

\* Argument items of Add: pre-built Attrs where two records are followed, the
\* key / value form where one is.
AttrItems == {AttrItem(KV), AttrItem(EmptyGroup)}

KeyItems == {StrItem("k")}

ItemPool == {StrItem("k"), AttrItem(KV), AttrItem(EmptyGroup), IntItem("7"), NilItem}

SeqsUpTo(S, n) == UNION {[1..m -> S] : m \in 0..n}

AttrLists == SeqsUpTo(AttrPool, MaxArgs)

AttrArgLists == SeqsUpTo(AttrItems, MaxArgs)

KeyArgLists == SeqsUpTo(KeyItems, MaxArgs)

ArgLists == SeqsUpTo(ItemPool, MaxArgs)

NonEmptyGroups(attrs) == SelectSeq(attrs, LAMBDA a : ~isEmptyGroup(a))

NoVisit == [rec |-> "", k |-> 0, seen |-> <<>>, calls |-> 0]

Other(x) == IF x = "r" THEN "c" ELSE "r"

\* Backing arrays no record refers to are garbage: drop them and number the
\* live ones in the order r, c.
Collect(h, rs) ==
    LET ra == rs["r"].back.arr
        ca == IF "c" \in DOMAIN rs THEN rs["c"].back.arr ELSE 0
        nr == IF ra = 0 THEN 0 ELSE 1
        nc == IF ca = 0 THEN 0 ELSE IF ca = ra THEN nr ELSE nr + 1
    IN [heap |-> (IF ra # 0 THEN <<h[ra]>> ELSE <<>>)
                 \o (IF ca # 0 /\ ca # ra THEN <<h[ca]>> ELSE <<>>),
        recs |-> [x \in DOMAIN rs |->
                    [rs[x] EXCEPT !.back.arr = IF x = "r" THEN nr ELSE nc]]]

NoRecord ==
    /\ heap = <<>>
    /\ recs = [x \in {"r"} |-> NewRecord]
    /\ rel = "none"
    /\ log = [x \in {"r"} |-> <<>>]
    /\ last = [op |-> "NewRecord", rec |-> "r", add |-> FALSE, empty |-> FALSE,
               skipped |-> FALSE]
    /\ visit = NoVisit
    /\ chans = NoChannels
    /\ pool = EmptyPool
    /\ sets = NoSets
    /\ parse = NotParsing
    /\ fam = NoLoggers

RecInit == NoRecord /\ New(FALSE)

\* r.AddAttrs(attrs...)
AddAttrsAct(x, attrs) ==
    /\ x \in DOMAIN recs
    /\ NumAttrs(recs[x]) + Len(attrs) <= MaxAttrs
    /\ LET p == AddAttrs(heap, recs[x], attrs)
           n == Collect(p.heap, [recs EXCEPT ![x] = p.rec])
       IN /\ heap' = n.heap
          /\ recs' = n.recs
    /\ log' = [log EXCEPT ![x] = @ \o NonEmptyGroups(attrs)]
    /\ last' = [op |-> "AddAttrs", rec |-> x, add |-> last.add,
                empty |-> last.empty \/ (rel = "shallow" /\
                              \E i \in 1..Len(attrs) : isEmptyAttr(attrs[i])),
                skipped |-> NonEmptyGroups(attrs) # attrs]
    /\ visit' = NoVisit
    /\ UNCHANGED <<rel, handlerVars, goVars>>

\* r.Add(args...)
AddAct(x, args) ==
    /\ x \in DOMAIN recs
    /\ NumAttrs(recs[x]) + Len(args) <= MaxAttrs
    /\ LET p == Add(heap, recs[x], args)
           n == Collect(p.heap, [recs EXCEPT ![x] = p.rec])
       IN /\ heap' = n.heap
          /\ recs' = n.recs
    /\ log' = [log EXCEPT ![x] = @ \o NonEmptyGroups(argsToAttrSlice(args))]
    /\ last' = [op |-> "Add", rec |-> x, add |-> last.add \/ rel = "shallow",
                empty |-> last.empty,
                skipped |-> Len(NonEmptyGroups(argsToAttrSlice(args))) # countAttrs(args)]
    /\ visit' = NoVisit
    /\ UNCHANGED <<rel, handlerVars, goVars>>

\* c := r.Clone()
CloneAct ==
    /\ DOMAIN recs = {"r"}
    /\ NumAttrs(recs["r"]) + MaxBelow >= nAttrsInline
    /\ recs' = [x \in {"r", "c"} |-> IF x = "r" THEN recs["r"] ELSE Clone(recs["r"])]
    /\ log' = [x \in {"r", "c"} |-> log["r"]]
    /\ rel' = "clone"
    /\ last' = [op |-> "Clone", rec |-> "c", add |-> FALSE, empty |-> FALSE,
                skipped |-> FALSE]
    /\ visit' = NoVisit
    /\ UNCHANGED <<heap, handlerVars, goVars>>

\* c := r
ShallowCopyAct ==
    /\ DOMAIN recs = {"r"}
    /\ NumAttrs(recs["r"]) + MaxBelow >= nAttrsInline
    /\ recs' = [x \in {"r", "c"} |-> IF x = "r" THEN recs["r"] ELSE ShallowCopy(recs["r"])]
    /\ log' = [x \in {"r", "c"} |-> log["r"]]
    /\ rel' = "shallow"
    /\ last' = [op |-> "ShallowCopy", rec |-> "c", add |-> FALSE, empty |-> FALSE,
                skipped |-> FALSE]
    /\ visit' = NoVisit
    /\ UNCHANGED <<heap, handlerVars, goVars>>

\* r.Attrs(f), f returning false on its k-th invocation
AttrsAct(x, k) ==
    /\ x \in DOMAIN recs
    /\ LET seen == Attrs(heap, recs[x], k) IN
       visit' = [rec |-> x, k |-> k, seen |-> seen, calls |-> Len(seen)]
    /\ UNCHANGED <<heap, recs, rel, log, last, handlerVars, goVars>>

RecNext ==
    \/ \E x \in {"r", "c"}, attrs \in AttrLists : AddAttrsAct(x, attrs)
    \/ \E x \in {"r", "c"}, args \in AttrArgLists : AddAct(x, args)
    \/ CloneAct
    \/ ShallowCopyAct

SpecRecord == RecInit /\ [][RecNext]_vars

AttrsNext ==
    \/ \E attrs \in AttrLists : AddAttrsAct("r", attrs)
    \/ \E args \in KeyArgLists : AddAct("r", args)
    \/ \E k \in 0..(MaxAttrs + 1) : AttrsAct("r", k)

SpecAttrs == RecInit /\ [][AttrsNext]_vars

----------------------------------------------------------------------------
(* Properties of the Record.                                               *)

Min(a, b) == IF a < b THEN a ELSE b

HasBug(as) == \E i \in 1..Len(as) : as[i].Key = bugKey

C2_AttrsOrder ==
    visit.rec # "" =>
        LET all == log[visit.rec]
            n == Len(all)
            m == IF visit.k = 0 \/ visit.k > n THEN n ELSE visit.k
        IN /\ n = NumAttrs(recs[visit.rec])
           /\ visit.seen = SubSeq(all, 1, m)
           /\ visit.calls = m

\* The visitor stopped an iteration inside the inline part of a record that
\* has overflow attributes.
C2_Witness ==
    /\ visit.rec = "r"
    /\ visit.k >= 1
    /\ visit.k < nAttrsInline
    /\ visit.calls = visit.k
    /\ recs["r"].back.len >= 1

\* C3: after c := r.Clone(), a call of AddAttrs or Add on one of the two
\* records leaves the other's attribute sequence as it was, and no record
\* ever holds a "!BUG" attribute.
C3_CloneIndependent ==
    [][(rel = "clone" /\ rel' = "clone") =>
          \A x \in DOMAIN recs :
              /\ last'.rec # x => View(heap', recs'[x]) = View(heap, recs[x])
              /\ ~HasBug(View(heap', recs'[x]))]_vars

\* The clone was taken of a record with overflow attributes, and both records
\* were appended to afterwards, with different attributes.
C3_Witness ==
    /\ rel = "clone"
    /\ recs["r"].back.len >= 2
    /\ recs["c"].back.len >= 2
    /\ View(heap, recs["r"]) # View(heap, recs["c"])

\* What a call of AddAttrs on x does when it finds the next overflow slot
\* occupied: x leaves the shared array and gets "!BUG", then its attributes.
BugAppended(x) ==
    (last'.op = "AddAttrs" /\ last'.rec = x /\ NextSlotOccupied(heap, recs[x].back)) =>
        /\ recs'[x].back.arr # recs'[Other(x)].back.arr
        /\ View(heap', recs'[x]) =
              View(heap, recs[x]) \o <<BugAttr>>
                  \o SubSeq(log'[x], Len(log[x]) + 1, Len(log'[x]))

\* C4 as stated: after a shallow copy, under AddAttrs calls with any
\* attributes, no call changes what the other copy's iteration yields.
C4_AnyAttrs ==
    [][(rel = "shallow" /\ ~last'.add) =>
          \A x \in DOMAIN recs :
              /\ last'.rec # x => View(heap', recs'[x]) = View(heap, recs[x])
              /\ BugAppended(x)]_vars

\* C4 as amended: the same, for AddAttrs calls none of whose attributes is
\* the empty Attr.
C4_NonEmptyAttrs ==
    [][(rel = "shallow" /\ ~last'.add /\ ~last'.empty) =>
          \A x \in DOMAIN recs :
              /\ last'.rec # x => View(heap', recs'[x]) = View(heap, recs[x])
              /\ BugAppended(x)]_vars

\* After a shallow copy one record appended into the shared array and the
\* other then got "!BUG" in an array of its own.
C4_Witness ==
    /\ rel = "shallow"
    /\ ~last.add
    /\ ~last.empty
    /\ last.op = "AddAttrs"
    /\ HasBug(View(heap, recs[last.rec]))
    /\ ~HasBug(View(heap, recs[Other(last.rec)]))
    /\ Len(log[Other(last.rec)]) > nAttrsInline + 1
    /\ recs["r"].back.arr # recs["c"].back.arr

\* The attribute sequences of all the records after x.Add(args) and after
\* x.AddAttrs(argsToAttrSlice(args)...).
ViewsAfter(p, x) ==
    [y \in DOMAIN recs |-> View(p.heap, IF y = x THEN p.rec ELSE recs[y])]

\* C5: in every state, for every argument list, Add(args...) and AddAttrs of
\* the attributes parsed from args leave every record with the same
\* attribute sequence.
C5_AddIsAddAttrs ==
    \A x \in DOMAIN recs : \A args \in ArgLists :
        ViewsAfter(Add(heap, recs[x], args), x)
            = ViewsAfter(AddAttrs(heap, recs[x], argsToAttrSlice(args)), x)

----------------------------------------------------------------------------
(* The handler state machine: handlers and loggers are allocated, never    *)
(* freed; a []string array no handler and no running call refers to is     *)
(* garbage.                                                                *)

GroupNames == {"a", "b"}

Prefixes == {"p", "q"}

GroupOfKV(key) == Group(key, <<KV>>)

HandlerAttrLists == {<<KV>>, <<GroupOfKV("g")>>}

LoggerArgLists == {<<>>, <<AttrItem(KV)>>, <<StrItem("k"), StrItem("v")>>}

HandleAttrs == {GroupOfKV("g"), GroupOfKV("h")}

RECURSIVE LiveArrays(_, _)
LiveArrays(H, todo) ==
    IF H # <<>> THEN {Head(H).h.groups.arr} \cup LiveArrays(Tail(H), todo)
    ELSE IF todo # <<>> THEN {Head(todo).groups.arr} \cup LiveArrays(H, Tail(todo))
    ELSE {}

RECURSIVE AllTodo(_, _)
AllTodo(C, c) == IF c > MaxCalls THEN <<>> ELSE C[c].st.todo \o AllTodo(C, c + 1)

RECURSIVE KeepArrays(_, _, _)
KeepArrays(g, live, a) ==
    IF a > Len(g) THEN <<>>
    ELSE (IF a \in live THEN <<g[a]>> ELSE <<>>) \o KeepArrays(g, live, a + 1)

Renumber(live, a) == IF a = 0 THEN 0 ELSE Cardinality({b \in live : b <= a})

RECURSIVE MoveHandlers(_, _)
MoveHandlers(H, live) ==
    IF H = <<>> THEN <<>>
    ELSE <<[Head(H) EXCEPT !.h.groups.arr = Renumber(live, @)]>>
         \o MoveHandlers(Tail(H), live)

RECURSIVE MoveTodo(_, _)
MoveTodo(todo, live) ==
    IF todo = <<>> THEN <<>>
    ELSE <<[Head(todo) EXCEPT !.groups.arr = Renumber(live, @)]>>
         \o MoveTodo(Tail(todo), live)

\* Drop the unreachable []string arrays and number the rest in their order.
CollectStrs(g, H, C) ==
    LET live == LiveArrays(H, AllTodo(C, 1)) \ {0} IN
    [gheap |-> KeepArrays(g, live, 1),
     hs |-> MoveHandlers(H, live),
     calls |-> [c \in 1..MaxCalls |-> [C[c] EXCEPT !.st.todo = MoveTodo(@, live)]]]

\* A derivation is made from one of the last MaxBack handlers, while fewer
\* than MaxHandlers are allocated.
CanDerive(x) == x \in DOMAIN hs /\ x + MaxBack > Len(hs) /\ Len(hs) < MaxHandlers

\* A With* call on handler x returned d.
Returned(op, x, d, empty, applied, bound) ==
    LET n == CollectStrs(d.gheap,
                         IF d.same THEN hs ELSE Append(hs, Allocated(d.gheap, d.h, applied, bound)),
                         calls)
    IN /\ gheap' = n.gheap
       /\ hs' = n.hs
       /\ calls' = n.calls
       /\ ret' = [NoRet EXCEPT !.op = op, !.kind = "handler", !.recv = x,
                               !.res = IF d.same THEN x ELSE Len(hs) + 1,
                               !.empty = empty]
       /\ UNCHANGED <<ls, cellVars, recVars, goVars>>

\* h.WithAttrs(attrs)
WithAttrsAct(x, attrs) ==
    /\ CanDerive(x)
    /\ Returned("WithAttrs", x, WithAttrs(gheap, hs[x].h, attrs), Len(attrs) = 0,
                hs[x].applied, hs[x].bound \o Bind(hs[x].h.groupPrefix, attrs))

\* h.WithGroup(name)
WithGroupAct(x, name) ==
    /\ CanDerive(x)
    /\ Returned("WithGroup", x, WithGroup(gheap, hs[x].h, name), name = "",
                hs[x].applied, hs[x].bound)

\* h.WithPrefix(prefix)
WithPrefixAct(x, prefix) ==
    /\ CanDerive(x)
    /\ Returned("WithPrefix", x, WithPrefix(gheap, hs[x].h, prefix), prefix = "",
                IF prefix = "" THEN hs[x].applied ELSE Append(hs[x].applied, prefix),
                hs[x].bound)

HandlerNext ==
    \/ \E x \in 1..MaxHandlers, attrs \in HandlerAttrLists : WithAttrsAct(x, attrs)
    \/ \E x \in 1..MaxHandlers, name \in GroupNames : WithGroupAct(x, name)
    \/ \E x \in 1..MaxHandlers, prefix \in Prefixes : WithPrefixAct(x, prefix)

\* New(out)
HandlerInit == NoRecord /\ New(FALSE)

SpecHandler == HandlerInit /\ [][HandlerNext]_vars

\* A Logger.With* call on logger l returned r.
LoggerReturned(op, l, r, empty, applied, bound) ==
    LET d == r.d
        n == CollectStrs(d.gheap,
                         IF d.same THEN hs ELSE Append(hs, Allocated(d.gheap, d.h, applied, bound)),
                         calls)
        handler == IF d.same THEN ls[l] ELSE Len(hs) + 1
    IN /\ gheap' = n.gheap
       /\ hs' = n.hs
       /\ calls' = n.calls
       /\ ls' = IF r.same THEN ls ELSE Append(ls, handler)
       /\ ret' = [NoRet EXCEPT !.op = op, !.kind = "logger", !.recv = l,
                               !.res = IF r.same THEN l ELSE Len(ls) + 1,
                               !.empty = empty]
       /\ UNCHANGED <<cellVars, recVars, goVars>>

CanDeriveLogger(l) == l \in DOMAIN ls /\ Len(ls) < MaxLoggers

\* l.WithAttrs(args...)
LoggerWithAttrsAct(l, args) ==
    /\ CanDeriveLogger(l)
    /\ LoggerReturned("WithAttrs", l, Logger_WithAttrs(gheap, hs[ls[l]].h, args),
                      Len(args) = 0, hs[ls[l]].applied,
                      hs[ls[l]].bound \o Bind(hs[ls[l]].h.groupPrefix, argsToAttrSlice(args)))

\* l.WithGroup(name)
LoggerWithGroupAct(l, name) ==
    /\ CanDeriveLogger(l)
    /\ LoggerReturned("WithGroup", l, Logger_WithGroup(gheap, hs[ls[l]].h, name),
                      name = "", hs[ls[l]].applied, hs[ls[l]].bound)

\* l.WithPrefix(prefix)
LoggerWithPrefixAct(l, prefix) ==
    /\ CanDeriveLogger(l)
    /\ LoggerReturned("WithPrefix", l, Logger_WithPrefix(gheap, hs[ls[l]].h, prefix),
                      prefix = "",
                      IF prefix = "" THEN hs[ls[l]].applied
                      ELSE Append(hs[ls[l]].applied, prefix),
                      hs[ls[l]].bound)

\* Logger.log returned after w.
LogReturned(l, v, args, w) ==
    LET n == CollectStrs(w.gheap, hs, calls)
    IN /\ gheap' = n.gheap
       /\ hs' = n.hs
       /\ calls' = n.calls
       /\ ret' = [NoRet EXCEPT !.op = "log", !.kind = "logger", !.recv = l,
                               !.res = l, !.v = v, !.built = w.built,
                               !.handled = w.handled, !.wrote = w.wrote,
                               !.line = w.line, !.to = w.to, !.err = w.err,
                               !.fallback = w.fallback, !.freed = w.freed,
                               !.r = LineRec(<<>>, "msg", argsToAttrSlice(args))]
       /\ UNCHANGED <<ls, cellVars, recVars, goVars>>

\* l.Info(msg, args...) or l.Debug(msg, args...)
LogAct(l, v, args, fail) ==
    /\ l \in DOMAIN ls
    /\ LogReturned(l, v, args,
                   Logger_log(gheap, hs[ls[l]].h, levelVar, outputVar, v, "msg", args, fail))

LoggerNext ==
    \/ \E l \in 1..MaxLoggers, args \in LoggerArgLists : LoggerWithAttrsAct(l, args)
    \/ \E l \in 1..MaxLoggers, name \in GroupNames \cup {""} : LoggerWithGroupAct(l, name)
    \/ \E l \in 1..MaxLoggers, prefix \in Prefixes \cup {""} : LoggerWithPrefixAct(l, prefix)
    \/ \E x \in 1..MaxHandlers : WithAttrsAct(x, <<>>)
    \/ \E x \in 1..MaxHandlers : WithGroupAct(x, "")
    \/ \E x \in 1..MaxHandlers : WithPrefixAct(x, "")
    \/ \E l \in 1..MaxLoggers, v \in {LevelDebug, LevelInfo}, args \in LoggerArgLists :
          LogAct(l, v, args, FALSE)

SpecLogger == HandlerInit /\ [][LoggerNext]_vars

\* Handle calls that run at the same time.  A call is one goroutine inside
\* h.Handle(r); its steps are the invocations of appendAttr, each of which
\* reads or writes the []string storage at most once.

\* Handle entered on handler x with a record of the one attribute a: the line
\* is written up to the record's attributes.
HandleEnter(c, x, a) ==
    /\ calls[c].pc = "idle"
    /\ x \in DOMAIN hs
    /\ LET p == logRecord(<<AttrItem(a)>>, "msg")
           h == hs[x].h
       IN calls' = [calls EXCEPT ![c] =
                       [pc |-> "attrs", h |-> x, level |-> LevelInfo, r |-> <<a>>,
                        st |-> [Rendering(gheap, h, View(p.heap, p.rec),
                                          HandleHead(h, p.rec, LevelInfo))
                                   EXCEPT !.seen = HandleHeadSeen(h, p.rec, LevelInfo)]]]
    /\ UNCHANGED <<gheap, hs, ls, ret, cellVars, recVars, goVars>>

\* The next invocation of appendAttr of call c.
HandleAttr(c) ==
    /\ calls[c].pc = "attrs"
    /\ calls[c].st.todo # <<>>
    /\ LET a == appendAttr(gheap, hs[calls[c].h].h.opts, calls[c].st)
           n == CollectStrs(a.gheap, hs, [calls EXCEPT ![c].st = a.st])
       IN /\ gheap' = n.gheap
          /\ hs' = n.hs
          /\ calls' = n.calls
    /\ UNCHANGED <<ls, ret, cellVars, recVars, goVars>>

\* The attributes are done: the line is written and Handle returns.
HandleReturn(c) ==
    /\ calls[c].pc = "attrs"
    /\ calls[c].st.todo = <<>>
    /\ calls' = [calls EXCEPT ![c] = Idle]
    /\ LET w == Write(hs[calls[c].h].h, outputVar, FALSE) IN
       ret' = [NoRet EXCEPT !.op = "Handle", !.kind = "handler", !.recv = calls[c].h,
                            !.res = calls[c].h, !.v = calls[c].level,
                            !.handled = TRUE, !.wrote = TRUE,
                            !.line = HandleLine(calls[c].st.buf),
                            !.seen = calls[c].st.seen, !.to = w.to, !.err = w.err,
                            !.freed = TRUE]
    /\ UNCHANGED <<gheap, hs, ls, cellVars, recVars, goVars>>

HandleNext ==
    \/ WithGroupAct(Len(hs), "a")
    \/ \E c \in 1..MaxCalls, a \in HandleAttrs : HandleEnter(c, Len(hs), a)
    \/ \E c \in 1..MaxCalls : HandleAttr(c)
    \/ \E c \in 1..MaxCalls : HandleReturn(c)

\* New(out, WithReplaceAttr(f))
HandleInit == NoRecord /\ New(TRUE)

SpecHandle == HandleInit /\ [][HandleNext]_vars

\* One handler family and Handle called on it directly: every combination of
\* ReplaceAttr and NoColor, attributes and groups bound with WithAttrs and
\* WithGroup, and records whose prefix, message, keys and values hold plain
\* text, a newline or an escape sequence.

LineOptions(rep, noColor) ==
    [ReplaceAttr |-> rep, Replace |-> "same", Level |-> VarLeveler, Output |-> VarOutput,
     NoColor |-> noColor]

LineBoundAttrs == {<<String("k", "v")>>, <<String(EscText, NLText), GroupOfKV("g")>>}

LineRecords ==
    {LineRec(<<>>, "msg", <<>>),
     LineRec(<<"p">>, "msg", <<String("k2", "v2"), Group("g", <<String("x", "y")>>)>>),
     LineRec(<<>>, NLText, <<>>),
     LineRec(<<>>, EscText, <<>>),
     LineRec(<<NLText>>, "msg", <<String(NLText, EscText)>>),
     LineRec(<<EscText>>, "msg", <<>>)}

\* Info("request completed", String("method", "GET"), Int("status", 200)); the
\* message is the token "msg".
RequestArgs ==
    <<AttrItem(String("method", "GET")), AttrItem(Any("status", IntItem("200")))>>

LineInit ==
    NoRecord /\ \E rep \in BOOLEAN, noColor \in BOOLEAN :
                   NewLogger(LevelInfo, "buf1", LineOptions(rep, noColor))

\* Handle on the record p.rec, kept in p.heap, with its Prefix set.
HandleRecord(h, prefix, level, p) ==
    Handle(gheap, p.heap, h, [p.rec EXCEPT !.Prefix = prefix], level, outputVar, FALSE)

\* h.Handle(r) on handler x returned after w.
HandleReturned(x, level, r, w) ==
    LET n == CollectStrs(w.gheap, hs, calls)
    IN /\ gheap' = n.gheap
       /\ hs' = n.hs
       /\ calls' = n.calls
       /\ ret' = [NoRet EXCEPT !.op = "Handle", !.kind = "handler", !.recv = x,
                               !.res = x, !.v = level, !.handled = TRUE,
                               !.wrote = TRUE, !.line = w.line, !.seen = w.seen,
                               !.to = w.to, !.err = w.err, !.freed = w.freed,
                               !.r = r]
       /\ UNCHANGED <<ls, cellVars, recVars, goVars>>

\* h.Handle(r) for the record r := NewRecord(now, level, msg) with r.Prefix
\* set to prefix and r.AddAttrs(attrs...).
HandleAct(x, prefix, msg, attrs, level) ==
    /\ x \in DOMAIN hs
    /\ HandleReturned(x, level, LineRec(prefix, msg, attrs),
                      HandleRecord(hs[x].h, prefix, level,
                                   logRecord([i \in DOMAIN attrs |-> AttrItem(attrs[i])], msg)))

LineNext ==
    \/ \E attrs \in LineBoundAttrs : WithAttrsAct(Len(hs), attrs)
    \/ WithGroupAct(Len(hs), "a")
    \/ \E r \in LineRecords : HandleAct(Len(hs), r.Prefix, r.Message, r.attrs, LevelInfo)
    \/ LogAct(1, LevelInfo, RequestArgs, FALSE)

SpecLine == LineInit /\ [][LineNext]_vars

\* The level gate and the sink: one logger family over a default or a
\* caller-supplied handler, SetLevel and SetOutput at run time.

\* Logger.Level, Logger.Enabled, Logger.Output
Logger_Level(lvl) == lvl

Logger_Enabled(h, lvl, v) == Enabled(h, lvl, v)

Logger_Output(o) == Output(o)

\* NewSimpleHandler(HandlerOptions{Level: ..., Output: buf}) handed to New.
CustomOptions(leveler) ==
    [ReplaceAttr |-> FALSE, Replace |-> "same", Level |-> leveler, Output |-> WriterOutput("buf1"),
     NoColor |-> TRUE]

HandlerOptionSets ==
    {DefaultOptions(FALSE), CustomOptions(FixedLeveler(LevelTrace)), CustomOptions(NilLeveler)}

SetLevels == {LevelDebug, LevelInfo, LevelWarn}

LogLevels == {LevelDebug, LevelInfo, LevelWarn}

SetWriters == Writers \cup {DiscardWriter, NilWriter}

SinkArgLists == {<<>>, <<AttrItem(KV)>>}

\* New(out), or New(out, WithHandler(h)) in the Options form of the tests
SinkInit == NoRecord /\ \E hopts \in HandlerOptionSets : NewLogger(LevelInfo, "buf1", hopts)

\* l.SetLevel(lvl)
SetLevelAct(l, lvl) ==
    /\ l \in DOMAIN ls
    /\ levelVar' = lvl
    /\ ret' = [NoRet EXCEPT !.op = "SetLevel", !.kind = "logger", !.recv = l,
                            !.res = l, !.v = lvl]
    /\ UNCHANGED <<gheap, hs, ls, calls, outputVar, recVars, goVars>>

\* l.SetOutput(w)
SetOutputAct(l, w) ==
    /\ l \in DOMAIN ls
    /\ LET r == OutputVar_Set(outputVar, w) IN
       /\ outputVar' = r.v
       /\ ret' = [NoRet EXCEPT !.op = "SetOutput", !.kind = "logger", !.recv = l,
                               !.res = l, !.arg = w, !.panicked = r.panicked]
    /\ UNCHANGED <<gheap, hs, ls, calls, levelVar, recVars, goVars>>

SinkNext ==
    \/ \E l \in 1..MaxLoggers, lvl \in SetLevels : SetLevelAct(l, lvl)
    \/ \E l \in 1..MaxLoggers, w \in SetWriters : SetOutputAct(l, w)
    \/ \E l \in 1..MaxLoggers : LoggerWithPrefixAct(l, "p")
    \/ \E l \in 1..MaxLoggers, v \in LogLevels, args \in SinkArgLists, fail \in BOOLEAN :
          LogAct(l, v, args, fail)

SpecSink == SinkInit /\ [][SinkNext]_vars

----------------------------------------------------------------------------
(* Properties of the handler snapshots.                                    *)

RECURSIVE Reverse(_)
Reverse(q) == IF q = <<>> THEN <<>> ELSE Append(Reverse(Tail(q)), Head(q))

\* C6: every handler obtained so far, siblings included, still has the
\* pre-rendered attributes, dotted group prefix, group-name stack and prefix
\* it had when it was returned, whatever derivations were made since.
C6_SnapshotsImmutable ==
    \A x \in DOMAIN hs : Snapshot(gheap, hs[x].h) = hs[x].born

\* C10: after non-empty prefixes p1, ..., pn were applied in that order, the
\* handler's prefix is pn ... p1, and a WithPrefix call leaves the prefix of
\* its receiver as it was.
C10_PrefixOuterToInner ==
    [][/\ \A x \in DOMAIN hs' : hs'[x].h.prefix = Reverse(hs'[x].applied)
       /\ ret'.op = "WithPrefix" => hs'[ret'.recv].h.prefix = hs[ret'.recv].h.prefix]_vars

C10_Witness ==
    /\ ret.op = "WithPrefix"
    /\ ret.res # ret.recv
    /\ Len(hs[ret.res].applied) >= 3
    /\ hs[ret.res].applied[1] # hs[ret.res].applied[2]
    /\ hs[ret.res].h.prefix # hs[ret.res].applied

\* C9: WithPrefix(""), WithGroup("") and WithAttrs with no attributes, on a
\* handler and on a logger, return the receiver itself, allocate nothing and
\* change nothing.
C9_EmptyIsNoOp ==
    [][ret'.empty => /\ ret'.res = ret'.recv
                     /\ hs' = hs
                     /\ ls' = ls
                     /\ gheap' = gheap
                     /\ calls' = calls]_vars

C9_Witness ==
    /\ ret.empty
    /\ ret.kind = "logger"
    /\ ret.op = "WithGroup"
    /\ ret.recv > 1
    /\ hs[ls[ret.recv]].h.groups.len > 0

Bracketed(prefix) == <<"[">> \o prefix \o <<"]">>

\* The place of the prefix in a line: after "time", " ", level, " ".
PrefixAt(line, prefix) ==
    /\ Len(line) >= 4 + Len(prefix) + 2
    /\ SubSeq(line, 5, 4 + Len(prefix) + 2) = Bracketed(prefix)

\* C8: every line a logger writes carries the prefix of its handler in
\* brackets between the level and the message, and carries no bracket when
\* the handler has no prefix.
C8_LinesCarryPrefix ==
    (ret.op = "log" /\ ret.wrote) =>
        LET prefix == hs[ls[ret.recv]].h.prefix IN
        IF prefix # <<>> THEN PrefixAt(ret.line, prefix)
        ELSE \A i \in DOMAIN ret.line : ret.line[i] # "["

\* C7: the group path ReplaceAttr receives in a Handle call is the path that
\* call built (the handler's group stack, then the keys of the groups it is
\* inside), whatever other calls run at the same time.
C7_GroupPathPrivate ==
    \A c \in 1..MaxCalls : \A i \in DOMAIN calls[c].st.seen :
        calls[c].st.seen[i].got = calls[c].st.seen[i].want

\* Panic and Fatal: a logger over a buffer or over io.Discard, with the level
\* moved up to LevelFatal and back, and the exit hook replaced by one that
\* returns.

ExitLevels == {LevelInfo, LevelFatal}

ExitInit ==
    NoRecord /\ \E lvl \in ExitLevels, w \in {"buf1", DiscardWriter} :
                   NewLogger(lvl, w, DefaultOptions(FALSE))

\* A Panic or Fatal call returned (to the recover of the caller, or from the
\* exit hook) after e.
Exited(op, l, v, args, e) ==
    LET w == e.log
        n == CollectStrs(w.gheap, hs, calls)
    IN /\ gheap' = n.gheap
       /\ hs' = n.hs
       /\ calls' = n.calls
       /\ ret' = [NoRet EXCEPT !.op = op, !.kind = "logger", !.recv = l,
                               !.res = l, !.v = v, !.built = w.built,
                               !.handled = w.handled, !.wrote = w.wrote,
                               !.line = w.line, !.to = w.to, !.err = w.err,
                               !.fallback = w.fallback, !.freed = w.freed,
                               !.panicked = e.panicked, !.exited = e.exited,
                               !.r = LineRec(<<>>, "msg", argsToAttrSlice(args))]
       /\ UNCHANGED <<ls, cellVars, recVars, goVars>>

\* l.Panic(msg, args...)
PanicAct(l, args, fail) ==
    /\ l \in DOMAIN ls
    /\ Exited("Panic", l, LevelPanic, args,
              Logger_Panic(gheap, hs[ls[l]].h, levelVar, outputVar, "msg", args, fail))

\* l.Fatal(msg, args...)
FatalAct(l, args, fail) ==
    /\ l \in DOMAIN ls
    /\ Exited("Fatal", l, LevelFatal, args,
              Logger_Fatal(gheap, hs[ls[l]].h, levelVar, outputVar, "msg", args, fail))

ExitNext ==
    \/ \E l \in 1..MaxLoggers, lvl \in ExitLevels : SetLevelAct(l, lvl)
    \/ \E l \in 1..MaxLoggers : LoggerWithPrefixAct(l, "p")
    \/ \E l \in 1..MaxLoggers, v \in {LevelInfo, LevelError}, fail \in BOOLEAN :
          LogAct(l, v, <<>>, fail)
    \/ \E l \in 1..MaxLoggers, args \in SinkArgLists, fail \in BOOLEAN : PanicAct(l, args, fail)
    \/ \E l \in 1..MaxLoggers, args \in SinkArgLists, fail \in BOOLEAN : FatalAct(l, args, fail)

SpecExit == ExitInit /\ [][ExitNext]_vars

----------------------------------------------------------------------------
(* Properties of the level gate, the sink and the written line.            *)

DefaultHandler == hs[1].h.opts = DefaultOptions(FALSE)

AllLevels == LevelTrace..LevelFatal

\* C12: on every logger, however it was built, once SetLevel was called
\* Enabled(v) is true exactly when v >= Level(), and no logging call below
\* Level() is written.
C12_SetLevelGoverns ==
    /\ ret.op = "SetLevel" =>
          \A l \in DOMAIN ls, v \in AllLevels :
              Logger_Enabled(hs[ls[l]].h, levelVar, v) <=> (v >= Logger_Level(levelVar))
    /\ (ret.op = "log" /\ ret.v < Logger_Level(levelVar)) => ~ret.wrote

Discarded(w) == w = NilWriter \/ w = DiscardWriter

\* C13: every SetOutput call returns normally, whatever writer it is given;
\* afterwards Discard() is true exactly when that writer is nil or io.Discard,
\* Output() returns it (io.Discard when discarded), and lines are written to
\* it and to no earlier writer.
C13_SinkSwap ==
    /\ ret.op = "SetOutput" =>
          /\ ~ret.panicked
          /\ Discard(outputVar) <=> Discarded(ret.arg)
          /\ Logger_Output(outputVar) = IF Discarded(ret.arg) THEN DiscardWriter ELSE ret.arg
    /\ (ret.op = "log" /\ ret.wrote /\ outputVar.given # "unset") => ret.to = outputVar.given

\* The line of a Handle call that runs alone on handler h with a record of
\* the attributes attrs.
WholeLine(h, attrs) ==
    LET p == logRecord([i \in 1..Len(attrs) |-> AttrItem(attrs[i])], "msg")
    IN Handle(gheap, p.heap, h, p.rec, LevelInfo, outputVar, FALSE).line

IsPrefixOf(s, t) == Len(s) <= Len(t) /\ SubSeq(t, 1, Len(s)) = s

\* C14: a line is never torn.  Whatever other Handle and With* calls run
\* between its steps, a Handle call builds its line in a buffer of its own
\* (what it holds is always the beginning of the line it would render alone)
\* and returns after one Write of exactly that complete line.
C14_LineNeverTorn ==
    [][\A c \in 1..MaxCalls :
          /\ calls'[c].pc = "attrs" =>
                \E k \in 0..1 :
                   IsPrefixOf(SubSeq(calls'[c].st.buf, 1, Len(calls'[c].st.buf) - k),
                              WholeLine(hs[calls'[c].h].h, calls'[c].r))
          /\ (calls[c].pc = "attrs" /\ calls'[c].pc = "idle") =>
                /\ ret'.op = "Handle" /\ ret'.wrote
                /\ ret'.line = WholeLine(hs[calls[c].h].h, calls[c].r)]_vars

\* A call on a record with group g returned its line while another call, on
\* a record with group h, had expanded its group and not yet returned.
C14_Witness ==
    /\ ret.op = "Handle" /\ ret.wrote
    /\ \E i \in 1..Len(ret.line) : ret.line[i] = "g"
    /\ \E c \in 1..MaxCalls :
          /\ calls[c].pc = "attrs"
          /\ calls[c].r = <<GroupOfKV("h")>>
          /\ calls[c].st.todo # <<>>
          /\ Head(calls[c].st.todo).attr.kind # "Group"
    /\ Len(hs) >= 3

AnsiCodes ==
    {ansiReset, ansiFaint, ansiResetFaint, ansiBrightRed, ansiBrightGreen,
     ansiBrightYellow, ansiBrightCyan, ansiGray, ansiWhite}

NotAnsi(tok) == tok \notin AnsiCodes

\* A line without the colour codes the handler adds.
Uncoloured(line) == SelectSeq(line, NotAnsi)

\* The attributes attrs one after the other, each group replaced by its
\* members under the group's name.
RECURSIVE Flat(_, _, _)
Flat(opts, groups, attrs) ==
    IF attrs = <<>> THEN <<>>
    ELSE LET a == Head(attrs) IN
         (IF isEmptyAttr(a) THEN <<>>
          ELSE IF a.kind = "Group"
          THEN Flat(opts, IF a.Key # "" THEN groups \o <<a.Key, ".">> ELSE groups, a.group)
          ELSE appendKeyValue(opts, a, groups))
         \o Flat(opts, groups, Tail(attrs))

RECURSIVE BoundText(_, _)
BoundText(opts, bound) ==
    IF bound = <<>> THEN <<>>
    ELSE Flat(opts, Head(bound).groups, <<Head(bound).attr>>)
         \o BoundText(opts, Tail(bound))

RECURSIVE InOrder(_, _)
InOrder(toks, line) ==
    IF toks = <<>> THEN TRUE
    ELSE IF line = <<>> THEN FALSE
    ELSE IF Head(toks) = Head(line) THEN InOrder(Tail(toks), Tail(line))
    ELSE InOrder(toks, Tail(line))

\* Info("request completed", String("method", "GET"), Int("status", 200))
\* wrote a line through a handler without colour.
RequestLogged ==
    /\ ret.op = "log" /\ ret.wrote /\ ret.v = LevelInfo
    /\ hs[ls[ret.recv]].h.opts.NoColor

HasNewline(tok) == tok = "\n" \/ tok = NLText

\* C17: every Handle call writes a single line: whatever the message, the
\* prefix, the keys and the values, with or without ReplaceAttr, the bytes
\* written hold exactly one newline and it is the last byte.
C17_SingleLine ==
    ret.op = "Handle" =>
        /\ ret.line # <<>>
        /\ ret.line[Len(ret.line)] = "\n"
        /\ \A i \in 1..(Len(ret.line) - 1) : ~HasNewline(ret.line[i])

\* The token holds the ESC byte.
HasEscape(tok) == tok = EscText \/ tok \in AnsiCodes

\* C18: with NoColor set the written line holds no ESC byte, whatever the
\* message, the prefix, the keys and the string values of the record hold.
C18_NoEscapeWithoutColor ==
    (ret.op = "Handle" /\ hs[ret.recv].h.opts.NoColor) =>
        \A i \in 1..Len(ret.line) : ~HasEscape(ret.line[i])

\* C19: when the sink's Write returns an error, Handle returns it with its
\* buffer released, and the entry point returns normally after reporting the
\* error once through FallbackErrorf (and not at all without an error); the
\* level, the sink, the loggers and the handlers are as before, and the same
\* call made next, with the sink working again, writes its line.
C19_WriteErrorContained ==
    [][ret'.op = "log" =>
          /\ ret'.err => (ret'.handled /\ ret'.freed /\ ret'.fallback = 1)
          /\ ~ret'.err => ret'.fallback = 0
          /\ ~ret'.panicked /\ ret'.exited = 0
          /\ levelVar' = levelVar /\ outputVar' = outputVar /\ ls' = ls
          /\ Len(hs') = Len(hs)
          /\ \A x \in DOMAIN hs : Snapshot(gheap', hs'[x].h) = Snapshot(gheap, hs[x].h)
                                  /\ hs'[x].h.opts = hs[x].h.opts
          /\ (ret.op = "log" /\ ret.err /\ ~ret'.err
              /\ ret'.recv = ret.recv /\ ret'.v = ret.v /\ ret'.r = ret.r)
                => (ret'.wrote /\ ret'.line = ret.line /\ ret'.to = ret.to)]_vars

C19_Witness ==
    /\ ret.op = "log" /\ ret.err /\ ret.fallback = 1 /\ ret.freed
    /\ ret.to \in Writers /\ Len(ret.r.attrs) > 0
    /\ levelVar # LevelInfo

\* A logging entry point returned.
EntryPoints == {"log", "Panic", "Fatal"}

\* The call panicked or invoked the exit hook.
Terminated == ret.panicked \/ ret.exited # 0

\* C20 as stated: every panic and every invocation of the exit hook comes
\* from a Panic or Fatal entry point and after a completed write of the
\* event's line on the sink.
C20_ExitOnlyAfterWrite ==
    (ret.op \in EntryPoints /\ Terminated) =>
        /\ ret.op \in {"Panic", "Fatal"}
        /\ ret.wrote /\ ~ret.err /\ ret.line # <<>>

\* C20, amended: Panic panics and Fatal invokes the exit hook with code 1
\* whenever they are called, after their logging step: the event's line was
\* handed to the sink in one Write before, successful or not, exactly when the
\* sink is not discarded and the level is enabled, and nothing was written
\* otherwise; no other logging entry point panics or invokes the exit hook.
C20_ExitAfterLogStep ==
    ret.op \in EntryPoints =>
        /\ ret.op = "Panic" => (ret.panicked /\ ret.exited = 0 /\ ret.v = LevelPanic)
        /\ ret.op = "Fatal" => (~ret.panicked /\ ret.exited = 1 /\ ret.v = LevelFatal)
        /\ ret.op = "log" => ~Terminated
        /\ ret.wrote <=> (~Discard(outputVar)
                          /\ Logger_Enabled(hs[ls[ret.recv]].h, levelVar, ret.v))
        /\ ret.wrote => (ret.line # <<>> /\ ret.to = Logger_Output(outputVar))
        /\ ~ret.wrote => ret.line = <<>>

\* Panic was called with the level at LevelFatal: it panicked, nothing written.
C20_Witness ==
    /\ ret.op = "Panic" /\ ret.panicked /\ ~ret.wrote
    /\ levelVar = LevelFatal /\ ~Discard(outputVar)

----------------------------------------------------------------------------
(* The Channel state machine.                                              *)

\* Channel calls that run at the same time; each is a Load, then NewFunc,
\* then LoadOrStore.

\* Channel(name) returned res to goroutine g.
ChannelReturned(g, name, new, res, reg, made) ==
    /\ chans' = [reg |-> reg, made |-> made,
                 go |-> [chans.go EXCEPT ![g] =
                            [pc |-> "idle", name |-> name, new |-> new, res |-> res]],
                 returned |-> chans.returned \cup {[name |-> name, res |-> res]}]
    /\ UNCHANGED <<handlerVars, recVars, pool, sets, parse, fam>>

\* The fast path: the logger is there and is returned, or the call goes on.
ChannelLoad(g, name) ==
    /\ chans.go[g].pc = "idle"
    /\ Len(chans.made) < MaxMade
    /\ LET l == Map_Load(chans.reg, name) IN
       IF l.ok THEN ChannelReturned(g, name, 0, l.value, chans.reg, chans.made)
       ELSE /\ chans' = [chans EXCEPT !.go[g] =
                            [pc |-> "new", name |-> name, new |-> 0, res |-> 0]]
            /\ UNCHANGED <<handlerVars, recVars, pool, sets, parse, fam>>

\* newLogger := NewFunc(name), a fresh logger.
ChannelNew(g) ==
    /\ chans.go[g].pc = "new"
    /\ chans' = [chans EXCEPT !.made = Append(@, chans.go[g].name),
                              !.go[g].pc = "store",
                              !.go[g].new = Len(chans.made) + 1]
    /\ UNCHANGED <<handlerVars, recVars, pool, sets, parse, fam>>

ChannelStored(g, s) ==
    ChannelReturned(g, chans.go[g].name, chans.go[g].new, s.actual, s.reg, chans.made)

\* actual, _ := ls.LoadOrStore(name, newLogger); return actual
ChannelStore(g) ==
    /\ chans.go[g].pc = "store"
    /\ ChannelStored(g, Map_LoadOrStore(chans.reg, chans.go[g].name, chans.go[g].new))

ChannelNext ==
    \/ \E g \in Goroutines, name \in ChannelNames : ChannelLoad(g, name)
    \/ \E g \in Goroutines : ChannelNew(g)
    \/ \E g \in Goroutines : ChannelStore(g)

ChannelInit == NoRecord /\ New(FALSE)

SpecChannel == ChannelInit /\ [][ChannelNext]_vars

----------------------------------------------------------------------------
(* Groups: handlers derived with WithGroup from a handler that has a       *)
(* ReplaceAttr, and records handled through any of them.                   *)

GroupLists == {<<>>, <<KV>>, <<KV, GroupOfKV("g")>>}

\* New(out, WithReplaceAttr(f))
GroupInit == NoRecord /\ New(TRUE)

GroupNext ==
    \/ \E x \in 1..MaxHandlers, name \in GroupNames : WithGroupAct(x, name)
    \/ \E x \in 1..MaxHandlers, attrs \in GroupLists :
          HandleAct(x, <<>>, "msg", attrs, LevelInfo)

SpecGroup == GroupInit /\ [][GroupNext]_vars

----------------------------------------------------------------------------
(* ReplaceAttr: one handler family whose ReplaceAttr is one of the         *)
(* functions of replaceAttr, NoColor set, attributes bound with WithAttrs, *)
(* groups opened with WithGroup, and records handled through any handler.  *)

ReplaceFuncs == {"same", "mask", "drop", "group"}

ReplaceOptions(f) == [DefaultOptions(TRUE) EXCEPT !.Replace = f]

ReplaceRecords ==
    {LineRec(<<>>, "msg", <<KV>>),
     LineRec(<<"p">>, "msg",
             <<String("k2", "v2"), Group("g", <<KV, Group("g2", <<String("x", "y")>>)>>)>>),
     LineRec(<<>>, "msg", <<ZeroAttr, String("x", "y")>>)}

ReplaceInit ==
    NoRecord /\ \E f \in ReplaceFuncs : NewLogger(LevelInfo, "buf1", ReplaceOptions(f))

ReplaceNext ==
    \/ WithGroupAct(Len(hs), "a")
    \/ Len(hs) > 1 /\ WithGroupAct(Len(hs) - 1, "b")
    \/ WithAttrsAct(Len(hs), <<KV>>)
    \/ \E x \in {Len(hs) - 1, Len(hs)}, r \in ReplaceRecords :
          HandleAct(x, r.Prefix, r.Message, r.attrs, LevelInfo)

SpecReplace == ReplaceInit /\ [][ReplaceNext]_vars

----------------------------------------------------------------------------
(* LevelVar: var v LevelVar, and a handler made with                       *)
(* NewSimpleHandler(HandlerOptions{Level: &v, Output: buf}); levelVar is   *)
(* v.val.                                                                  *)

NamedLevels ==
    {LevelTrace, LevelDebug, LevelInfo, LevelWarn, LevelError, LevelPanic, LevelFatal}

LevelVarInit ==
    NoRecord /\ \E noColor \in BOOLEAN :
                   NewLogger(ZeroLevelVar, "buf1",
                             [CustomOptions(VarLeveler) EXCEPT !.NoColor = noColor])

\* v.Set(l)
LevelVarSetAct(l) ==
    /\ levelVar' = LevelVar_Set(levelVar, l)
    /\ ret' = [NoRet EXCEPT !.op = "LevelVar.Set", !.v = l]
    /\ UNCHANGED <<gheap, hs, ls, calls, outputVar, recVars, goVars>>

\* v.Level()
LevelVarLevelAct ==
    /\ ret' = [NoRet EXCEPT !.op = "LevelVar.Level", !.v = LevelVar_Level(levelVar)]
    /\ UNCHANGED <<gheap, hs, ls, calls, cellVars, recVars, goVars>>

\* h.Enabled(level); arg is what it returned.
EnabledAct(level) ==
    /\ ret' = [NoRet EXCEPT !.op = "Enabled", !.kind = "handler", !.recv = 1, !.v = level,
                            !.arg = IF Enabled(hs[1].h, LevelVar_Level(levelVar), level)
                                    THEN "true" ELSE "false"]
    /\ UNCHANGED <<gheap, hs, ls, calls, cellVars, recVars, goVars>>

\* if h.Enabled(level) { h.Handle(r) }
EnabledHandleAct(level) ==
    /\ Enabled(hs[1].h, LevelVar_Level(levelVar), level)
    /\ HandleAct(1, <<>>, "msg", <<>>, level)

LevelVarNext ==
    \/ \E l \in NamedLevels : LevelVarSetAct(l)
    \/ LevelVarLevelAct
    \/ \E level \in NamedLevels : EnabledAct(level)
    \/ \E level \in NamedLevels : EnabledHandleAct(level)

SpecLevelVar == LevelVarInit /\ [][LevelVarNext]_vars

----------------------------------------------------------------------------
(* Values whose methods panic: one handler, with or without ReplaceAttr    *)
(* and colour, attributes bound with WithAttrs, and records of values that *)
(* format, fail or panic.                                                  *)

PanicPool ==
    {KV, TextMarshaler("t", "text"), TextMarshaler("t", "err"), TextMarshaler("t", "boom"),
     TextMarshaler("t", "nilptr"), Stringer("s", "text"), Stringer("s", "boom"),
     Stringer("s", "nilptr")}

PanicLists == SeqsUpTo(PanicPool, MaxArgs)

PanicNext ==
    \/ WithAttrsAct(Len(hs), <<TextMarshaler("t", "boom"), Stringer("s", "boom")>>)
    \/ \E attrs \in PanicLists : HandleAct(Len(hs), <<>>, "msg", attrs, LevelInfo)

SpecPanic == LineInit /\ [][PanicNext]_vars

----------------------------------------------------------------------------
(* The buffer pool: Handle and WithAttrs calls that run at the same time,  *)
(* each a newBuffer(), the writes of its line, and the deferred Free().    *)

\* The bytes one call writes: a short line, a line longer than a new
\* buffer, and a line longer than maxBufferSize.
LineSizes == {100, 2000, 20000}

\* buf := newBuffer(); defer buf.Free()
NewBufferAct(g, op, n, b) ==
    /\ pool.go[g].pc = "idle"
    /\ IF b = 0 THEN Len(pool.bufs) < MaxBufs ELSE b \in pool.free
    /\ LET r == bufPool_Get(pool, b) IN
       pool' = [r.p EXCEPT !.go[g] = [pc |-> "got", op |-> op, buf |-> r.b, n |-> n]]
    /\ UNCHANGED <<handlerVars, recVars, chans, sets, parse, fam>>

\* The line is built in the buffer.
BufferWriteAct(g) ==
    /\ pool.go[g].pc = "got"
    /\ pool' = [pool EXCEPT !.bufs[pool.go[g].buf] = buffer_Write(@, pool.go[g].n),
                            !.go[g].pc = "built"]
    /\ UNCHANGED <<handlerVars, recVars, chans, sets, parse, fam>>

\* The call returns and its deferred buf.Free() runs.
BufferFreeAct(g) ==
    /\ pool.go[g].pc = "built"
    /\ pool' = [buffer_Free(pool, pool.go[g].buf) EXCEPT !.go[g] = NoCall]
    /\ UNCHANGED <<handlerVars, recVars, chans, sets, parse, fam>>

\* The garbage collector empties the pool.
PoolClearAct ==
    /\ pool.free # {}
    /\ pool' = [pool EXCEPT !.free = {}]
    /\ UNCHANGED <<handlerVars, recVars, chans, sets, parse, fam>>

PoolNext ==
    \/ \E g \in Goroutines, op \in {"Handle", "WithAttrs"}, n \in LineSizes,
          b \in 0..MaxBufs : NewBufferAct(g, op, n, b)
    \/ \E g \in Goroutines : BufferWriteAct(g)
    \/ \E g \in Goroutines : BufferFreeAct(g)
    \/ PoolClearAct

PoolInit == NoRecord /\ New(FALSE)

SpecPool == PoolInit /\ [][PoolNext]_vars

----------------------------------------------------------------------------
(* argsToAttrSlice, one iteration of its loop at a time.                   *)

MaxItems == 3  \* longest argument list given to argsToAttrSlice

ItemLists == SeqsUpTo(ItemPool, MaxItems)

\* argsToAttrSlice(args), up to the loop: nil is returned for no arguments.
ArgsToAttrSliceAct(args) ==
    /\ parse.pc \in {"idle", "done"}
    /\ parse' = [pc |-> IF Len(args) = 0 THEN "done" ELSE "loop",
                 args |-> args, rest |-> args, attrs |-> <<>>]
    /\ UNCHANGED <<handlerVars, recVars, chans, pool, sets, fam>>

\* One iteration: attr, args = argsToAttr(args); attrs = append(attrs, attr)
ArgsToAttrAct ==
    /\ parse.pc = "loop"
    /\ LET p == argsToAttr(parse.rest) IN
       parse' = [parse EXCEPT !.rest = p.rest, !.attrs = Append(@, p.attr),
                              !.pc = IF Len(p.rest) > 0 THEN "loop" ELSE "done"]
    /\ UNCHANGED <<handlerVars, recVars, chans, pool, sets, fam>>

ParseNext ==
    \/ \E args \in ItemLists : ArgsToAttrSliceAct(args)
    \/ ArgsToAttrAct

ParseInit == NoRecord /\ New(FALSE)

SpecParse == ParseInit /\ [][ParseNext]_vars

----------------------------------------------------------------------------
(* The sink cell under concurrent use: Set is two atomic stores, Output    *)
(* and Write two atomic loads, and other calls may run between them.       *)

CellWriters == {"buf1", "buf2", DiscardWriter, NilWriter}

\* var v OutputVar, or v := NewOutputVar(w)
CellInit ==
    /\ NoRecord
    /\ gheap = <<>>
    /\ hs = <<Allocated(<<>>, NewSimpleHandler(DefaultOptions(FALSE)), <<>>, <<>>)>>
    /\ ls = <<1>>
    /\ calls = [c \in 1..MaxCalls |-> Idle]
    /\ ret = NoRet
    /\ levelVar = LevelInfo
    /\ outputVar \in {ZeroOutputVar, NewOutputVar("buf1"), NewOutputVar(DiscardWriter)}

\* v.Set(w): v.ready.Store(w != nil && w != io.Discard)
SetReadyAct(g, w) ==
    /\ sets.go[g].pc = "idle"
    /\ outputVar' = [outputVar EXCEPT !.ready = (w # NilWriter /\ w # DiscardWriter),
                                      !.given = w]
    /\ sets' = [sets EXCEPT !.go[g] = [pc |-> "writer", op |-> "Set", w |-> w]]
    /\ UNCHANGED <<gheap, hs, ls, calls, ret, levelVar, recVars, chans, pool, parse, fam>>

\* v.Set(w): v.writer.Store(w)
SetWriterAct(g) ==
    /\ sets.go[g].pc = "writer"
    /\ outputVar' = [outputVar EXCEPT !.writer = IF StorePanics(outputVar, sets.go[g].w)
                                                  THEN @ ELSE sets.go[g].w]
    /\ sets' = [sets EXCEPT !.go[g] = NoSetCall,
                            !.last = [NoSetRet EXCEPT !.op = "Set", !.g = g,
                                         !.w = sets.go[g].w,
                                         !.panicked = StorePanics(outputVar, sets.go[g].w)]]
    /\ UNCHANGED <<gheap, hs, ls, calls, ret, levelVar, recVars, chans, pool, parse, fam>>

\* v.Discard()
DiscardAct(g) ==
    /\ sets.go[g].pc = "idle"
    /\ sets' = [sets EXCEPT !.last = [NoSetRet EXCEPT !.op = "Discard", !.g = g,
                                         !.discard = Discard(outputVar)]]
    /\ UNCHANGED <<handlerVars, recVars, chans, pool, parse, fam>>

\* v.Output(), also as the first step of v.Write(p): if v.Discard()
OutputAct(g, op) ==
    /\ sets.go[g].pc = "idle"
    /\ sets' = IF Discard(outputVar)
               THEN [sets EXCEPT !.last = [NoSetRet EXCEPT !.op = op, !.g = g,
                                              !.discard = TRUE, !.w = DiscardWriter]]
               ELSE [sets EXCEPT !.go[g] = [pc |-> "load", op |-> op, w |-> ""]]
    /\ UNCHANGED <<handlerVars, recVars, chans, pool, parse, fam>>

\* v.Output(): return v.writer.Load().(io.Writer)
OutputLoadAct(g) ==
    /\ sets.go[g].pc = "load"
    /\ sets' = [sets EXCEPT !.go[g] = NoSetCall,
                            !.last = [NoSetRet EXCEPT !.op = sets.go[g].op, !.g = g,
                                         !.panicked = LoadPanics(outputVar),
                                         !.w = IF LoadPanics(outputVar) THEN ""
                                               ELSE outputVar.writer]]
    /\ UNCHANGED <<handlerVars, recVars, chans, pool, parse, fam>>

CellNext ==
    \/ \E g \in Goroutines, w \in CellWriters : SetReadyAct(g, w)
    \/ \E g \in Goroutines : SetWriterAct(g)
    \/ \E g \in Goroutines : DiscardAct(g)
    \/ \E g \in Goroutines, op \in {"Output", "Write"} : OutputAct(g, op)
    \/ \E g \in Goroutines : OutputLoadAct(g)

SpecCell == CellInit /\ [][CellNext]_vars

----------------------------------------------------------------------------
(* Families of loggers: New, the derivations, and SetLevel / SetOutput on  *)
(* any logger.                                                             *)

\* The writers and levels New is given, and those set afterwards.
NewWriters == {"buf1"}

NewLevels == {LevelDebug}

FamilyWriters == {"buf2", DiscardWriter}

FamilyLevels == {LevelDebug, LevelWarn}

\* ov := NewOutputVar(w)
UserOutputVarAct(w) ==
    /\ Len(SelectSeq(fam.user, LAMBDA u : u)) < MaxUserCells
    /\ fam' = [UserOutputVar(fam, w) EXCEPT !.last = [NoLastCall EXCEPT !.op = "NewOutputVar"]]
    /\ UNCHANGED <<handlerVars, recVars, chans, pool, sets, parse>>

\* l := New(out, WithLevel(lvl))
FamilyNewAct(out, lvl) ==
    /\ Len(fam.of) < MaxFamily
    /\ out.kind = "var" => (out.id \in DOMAIN fam.output /\ fam.user[out.id])
    /\ fam' = [Logger_New(fam, out, lvl) EXCEPT
                  !.last = [op |-> "New", l |-> 0, res |-> Len(fam.of) + 1]]
    /\ UNCHANGED <<handlerVars, recVars, chans, pool, sets, parse>>

\* d := l.WithAttrs(args...) / l.WithPrefix(prefix) / l.WithGroup(name)
FamilyWithAct(l, op, empty) ==
    /\ l \in DOMAIN fam.of
    /\ Len(fam.of) < MaxFamily
    /\ fam' = [Logger_With(fam, l, empty) EXCEPT
                  !.last = [op |-> op, l |-> l,
                            res |-> IF empty THEN l ELSE Len(fam.of) + 1]]
    /\ UNCHANGED <<handlerVars, recVars, chans, pool, sets, parse>>

\* l.SetLevel(lvl)
FamilySetLevelAct(l, lvl) ==
    /\ l \in DOMAIN fam.of
    /\ fam' = [Logger_SetLevel(fam, l, lvl) EXCEPT
                  !.last = [op |-> "SetLevel", l |-> l, res |-> 0]]
    /\ UNCHANGED <<handlerVars, recVars, chans, pool, sets, parse>>

\* l.SetOutput(w)
FamilySetOutputAct(l, w) ==
    /\ l \in DOMAIN fam.of
    /\ fam' = [Logger_SetOutput(fam, l, w) EXCEPT
                  !.last = [op |-> "SetOutput", l |-> l, res |-> 0]]
    /\ UNCHANGED <<handlerVars, recVars, chans, pool, sets, parse>>

FamilyNext ==
    \/ \E w \in NewWriters : UserOutputVarAct(w)
    \/ \E w \in NewWriters, lvl \in NewLevels : FamilyNewAct(PlainWriter(w), lvl)
    \/ \E id \in 1..(MaxFamily + MaxUserCells), lvl \in NewLevels :
          FamilyNewAct(OutputVarWriter(id), lvl)
    \/ \E l \in 1..MaxFamily, op \in {"WithAttrs", "WithPrefix", "WithGroup"},
          empty \in BOOLEAN : FamilyWithAct(l, op, empty)
    \/ \E l \in 1..MaxFamily, lvl \in FamilyLevels : FamilySetLevelAct(l, lvl)
    \/ \E l \in 1..MaxFamily, w \in FamilyWriters : FamilySetOutputAct(l, w)

FamilyInit == NoRecord /\ New(FALSE)

SpecFamily == FamilyInit /\ [][FamilyNext]_vars

----------------------------------------------------------------------------
(* Properties of Channel, the level cell, the buffer pool and the sink     *)
(* cell.                                                                   *)

\* C21: Channel returns one logger per name.  Whatever the interleaving of
\* the calls, two calls return the same logger exactly when they were given
\* the same name, and a registered name keeps its logger, also when NewFunc
\* ran more than once for it.
C21_OneLoggerPerName ==
    [][/\ \A n \in ChannelNames : chans.reg[n] # 0 => chans'.reg[n] = chans.reg[n]
       /\ \A p, q \in chans'.returned : (p.name = q.name) <=> (p.res = q.res)
       /\ \A p \in chans'.returned : p.res # 0 /\ chans'.reg[p.name] = p.res]_vars

\* NewFunc ran twice for one name, and the goroutine whose logger lost the
\* race returned the other one.
C21_Witness ==
    /\ Len(chans.made) >= 2 /\ chans.made[1] = chans.made[2]
    /\ \E g \in Goroutines :
          /\ chans.go[g].pc = "idle" /\ chans.go[g].new # 0
          /\ chans.go[g].res # chans.go[g].new
    /\ \E p, q \in chans.returned : p.name # q.name

\* Handler d is what x.WithGroup(s) returns: when it was returned it was x
\* with s added to the group prefix and to the group stack.
IsWithGroup(x, d, s) ==
    /\ hs[d].born.groupPrefix = hs[x].h.groupPrefix \o <<s, ".">>
    /\ hs[d].born.groups = Elems(gheap, hs[x].h.groups) \o <<s>>
    /\ hs[d].born.attrsPrefix = hs[x].h.attrsPrefix
    /\ hs[d].born.prefix = hs[x].h.prefix
    /\ hs[d].h.opts = hs[x].h.opts

\* The group paths ReplaceAttr received, in the order of its invocations.
Paths(seen) == [i \in DOMAIN seen |-> seen[i].got]

\* What x.Handle writes for the record whose only attribute is Group(s, A...).
Wrapped(x, s, A) ==
    HandleRecord(hs[x].h, <<>>, LevelInfo, logRecord(<<AttrItem(Group(s, A))>>, "msg"))

\* C22: WithGroup(s) is Group(s, ...) around the record's attributes.  A
\* record with the attributes A handled through x.WithGroup(s) writes the
\* bytes that the record with the one attribute Group(s, A...) writes through
\* x, and ReplaceAttr receives the same group path for each leaf.
C22_WithGroupIsGroup ==
    (ret.op = "Handle") =>
        \A x \in DOMAIN hs : \A s \in GroupNames :
            IsWithGroup(x, ret.recv, s) =>
                /\ ret.line = Wrapped(x, s, ret.r.attrs).line
                /\ Paths(ret.seen) = Paths(Wrapped(x, s, ret.r.attrs).seen)

\* The calls of ReplaceAttr that rendering attrs under the group path path
\* takes: one for each attribute that is not a group, with the names of the
\* groups around it, and those for the members of a group it returned.
RECURSIVE Leaves(_, _, _)
Leaves(opts, attrs, path) ==
    IF attrs = <<>> THEN <<>>
    ELSE LET a == Head(attrs)
             b == replaceAttr(opts, path, a)
             pa == IF a.Key = "" THEN path ELSE Append(path, a.Key)
             pb == IF b.Key = "" THEN path ELSE Append(path, b.Key)
         IN (IF a.kind = "Group" THEN Leaves(opts, a.group, pa)
             ELSE <<[path |-> path, attr |-> a]>>
                  \o (IF b.kind = "Group" THEN Leaves(opts, b.group, pb) ELSE <<>>))
            \o Leaves(opts, Tail(attrs), path)

\* The calls for the time, the level, the prefix and the message.
HeadLeaves(r, level) ==
    <<[path |-> <<>>, attr |-> TimeAttr], [path |-> <<>>, attr |-> LevelAttr(level)]>>
    \o (IF r.Prefix # <<>> THEN <<[path |-> <<>>, attr |-> PrefixAttr(r)]>> ELSE <<>>)
    \o <<[path |-> <<>>, attr |-> MessageAttr(r)]>>

Rendered(cs) == SelectSeq(cs, LAMBDA c : ~isEmptyAttr(c.attr))

RECURSIVE Dotted(_)
Dotted(path) == IF path = <<>> THEN <<>> ELSE <<Head(path), ".">> \o Dotted(Tail(path))

\* What is written, without colour, for what ReplaceAttr returned in call c,
\* the n first calls being those for the time, the level, the prefix and the
\* message.
RECURSIVE Outs(_, _, _)
Outs(want, seen, n) ==
    IF seen = <<>> THEN <<>>
    ELSE LET o == Head(seen).out IN
         (CASE n > 0 -> IF isEmptyAttr(o) THEN <<>> ELSE HeadText(o) \o <<" ">>
            [] n <= 0 /\ (isEmptyAttr(o) \/ o.kind = "Group") -> <<>>
            [] OTHER -> Dotted(Head(want).path) \o <<o.Key, "=", o.str, " ">>)
         \o Outs(Tail(want), Tail(seen), n - 1)

\* The names of the groups a key is qualified with.
Names(groupPrefix) == SelectSeq(groupPrefix, LAMBDA t : t # ".")

\* C23: ReplaceAttr is invoked once for each attribute that is not a group
\* and is rendered: the time, the level, the prefix and the message with an
\* empty group path, every other attribute with the names of the groups
\* around it, outermost first, and never a group.  What it returns is what is
\* written, and nothing is written for the empty Attr.
C23_ReplaceAttrCalls ==
    (ret.op = "Handle" /\ hs[ret.recv].h.opts.ReplaceAttr) =>
        LET h == hs[ret.recv].h
            head == HeadLeaves(ret.r, ret.v)
            want == head \o Leaves(h.opts, ret.r.attrs, Names(h.groupPrefix))
            seen == ret.seen
        IN /\ Rendered([i \in DOMAIN seen |-> [path |-> seen[i].got, attr |-> seen[i].attr]])
                = Rendered(want)
           /\ \A i \in DOMAIN seen : seen[i].attr.kind # "Group"
           /\ Len(seen) = Len(want) =>
                 ret.line = HandleLine(Outs(SubSeq(want, 1, Len(head)),
                                            SubSeq(seen, 1, Len(head)), Len(head))
                                       \o h.attrsPrefix
                                       \o Outs(SubSeq(want, Len(head) + 1, Len(want)),
                                               SubSeq(seen, Len(head) + 1, Len(seen)), 0))

\* C24: the zero LevelVar corresponds to LevelInfo.  While the LevelVar holds
\* its zero value, Level() returns LevelInfo, and the handler gated by it
\* enables the levels at or above LevelInfo and no other.
C24_ZeroIsInfo ==
    (levelVar = ZeroLevelVar) =>
        /\ ret.op = "LevelVar.Level" => ret.v = LevelInfo
        /\ ret.op = "Enabled" => (ret.arg = "true" <=> ret.v >= LevelInfo)
        /\ ret.op = "Handle" => ret.v >= LevelInfo

\* C25: whatever AddAttrs and Add calls were made on a record, and on the
\* copies made of it, its overflow holds an attribute only if all
\* nAttrsInline inline slots are used, and every inline slot from the inline
\* count on holds the zero Attr.
C25_FrontBeforeBack ==
    \A x \in DOMAIN recs :
        LET r == recs[x] IN
        /\ r.nFront \in 0..nAttrsInline
        /\ r.back.len > 0 => r.nFront = nAttrsInline
        /\ \A i \in (r.nFront + 1)..nAttrsInline : r.front[i] = ZeroAttr

\* After an AddAttrs or Add call one record has unused inline slots and its
\* copy has all of them used and an overflow.
C25_Witness ==
    /\ last.op \in {"AddAttrs", "Add"}
    /\ \E x \in DOMAIN recs : recs[x].nFront \in 1..(nAttrsInline - 1)
    /\ \E x \in DOMAIN recs :
          /\ recs[x].nFront = nAttrsInline
          /\ recs[x].back.len >= 2

\* What is written for the value of a, with the text fmtText for a String
\* method that panics.
ValueText(a, fmtText) ==
    CASE a.str = "nilptr" -> <<"<nil>">>
      [] a.str = "boom" -> <<"\"", IF a.kind = "Stringer" THEN fmtText ELSE PanicText, "\"">>
      [] a.str = "err" -> <<>>
      [] OTHER -> <<a.str>>

RECURSIVE AttrsText(_, _)
AttrsText(attrs, fmtText) ==
    IF attrs = <<>> THEN <<>>
    ELSE <<Head(attrs).Key, "=">> \o ValueText(Head(attrs), fmtText) \o <<" ">>
         \o AttrsText(Tail(attrs), fmtText)

\* Handle returned after one Write of the line that holds every attribute,
\* bound or of the record, and released its buffer.
PanicLine(fmtText) ==
    ret.op = "Handle" =>
        /\ ret.wrote /\ ~ret.err /\ ~ret.panicked /\ ret.freed /\ ret.to = "buf1"
        /\ Uncoloured(ret.line)
              = HandleLine(<<"time", " ", LevelText(ret.v), " ", ret.r.Message, " ">>
                           \o AttrsText([i \in DOMAIN hs[ret.recv].bound |->
                                            hs[ret.recv].bound[i].attr], fmtText)
                           \o AttrsText(ret.r.attrs, fmtText))

\* C26, as stated: a value whose formatting panics is written as <nil> when
\* it is a nil pointer and as "!PANIC: <message>" otherwise; the attributes
\* after it are written, Handle writes the line once, returns, and releases
\* the buffer.
C26_PanicPlaceholder == PanicLine(PanicText)

\* C26, amended: as above, with "!PANIC: <message>" for a panic of the
\* value's MarshalText method and fmt's %!v(PANIC=String method: <message>)
\* for a panic of a method fmt calls.
C26_PanicRecovered == PanicLine(FmtPanicText)

\* A line with a bound value and a first value whose MarshalText panics, and
\* after it a value whose String method panics.
C26_Witness ==
    /\ ret.op = "Handle" /\ ret.wrote
    /\ Len(hs[ret.recv].bound) >= 1
    /\ Len(ret.r.attrs) = 2
    /\ ret.r.attrs[1] = TextMarshaler("t", "boom")
    /\ ret.r.attrs[2] = Stringer("s", "boom")

\* The buffers the calls in progress hold.
InUse(p, g) == IF p.go[g].pc = "idle" THEN 0 ELSE p.go[g].buf

\* C27: the discipline of the buffer pool.  A buffer comes out of the pool
\* with length zero; Free sets the length to zero and puts the buffer back
\* when its capacity is at most maxBufferSize, and drops it otherwise; the
\* buffers in the pool have length zero and a capacity of at most
\* maxBufferSize, and no buffer is in the pool and in use, or in use by two
\* calls, however the calls interleave.
C27_PoolDiscipline ==
    [][/\ \A g \in Goroutines :
             /\ (pool.go[g].pc = "idle" /\ pool'.go[g].pc = "got") =>
                   pool'.bufs[pool'.go[g].buf].len = 0
             /\ (pool.go[g].pc = "built" /\ pool'.go[g].pc = "idle") =>
                   LET b == pool.go[g].buf IN
                   IF pool.bufs[b].cap <= maxBufferSize
                   THEN b \in pool'.free /\ pool'.bufs[b].len = 0
                   ELSE b \notin pool'.free
       /\ \A b \in pool'.free :
             /\ pool'.bufs[b].len = 0
             /\ pool'.bufs[b].cap <= maxBufferSize
             /\ \A g \in Goroutines : InUse(pool', g) # b
       /\ \A g, k \in Goroutines :
             (g # k /\ InUse(pool', g) # 0) => InUse(pool', g) # InUse(pool', k)]_vars

\* A call took from the pool a buffer that an earlier call had grown, while
\* another call holds a buffer of its own and a third buffer was dropped.
C27_Witness ==
    /\ pool.dropped # {}
    /\ \E g, k \in Goroutines :
          /\ g # k
          /\ pool.go[g].pc = "got"
          /\ pool.bufs[pool.go[g].buf].cap > bufferSize
          /\ pool.go[k].pc = "built"
          /\ pool.go[k].op # pool.go[g].op

\* The items of args from the i-th on.
From(args, i) == SubSeq(args, i, Len(args))

\* C28: parsing an argument list is total.  Every iteration of the loop
\* takes one or two items off the front of what is left, so the loop ends
\* and every item is consumed once, from left to right; an Attr yields
\* itself, a string followed by an item that key with the item as value, any
\* other item an attribute under "!BADKEY" with the item as value, and a
\* lone last string one attribute under "!BADKEY"; the call returns
\* countAttrs(args) attributes.
C28_ParsingIsTotal ==
    [][/\ (parse.pc = "loop" /\ parse' # parse) =>
             LET rest == parse.rest
                 x == rest[1]
                 used == IF x.tag = "string" /\ Len(rest) > 1 THEN 2 ELSE 1
                 a == parse'.attrs[Len(parse'.attrs)]
             IN /\ parse'.pc \in {"loop", "done"}
                /\ parse'.args = parse.args
                /\ parse'.rest = From(rest, used + 1)
                /\ parse'.attrs = Append(parse.attrs, a)
                /\ x.tag = "attr" => a = x.attr
                /\ (x.tag = "string" /\ Len(rest) > 1) => a = Any(x.s, rest[2])
                /\ (x.tag = "string" /\ Len(rest) = 1) => a = String(badKey, x.s)
                /\ x.tag \notin {"attr", "string"} => a = Any(badKey, x)
                /\ (parse'.pc = "done") = (parse'.rest = <<>>)
       /\ parse'.rest = From(parse'.args, Len(parse'.args) - Len(parse'.rest) + 1)
       /\ parse'.pc = "done" =>
             /\ parse'.rest = <<>>
             /\ Len(parse'.attrs) = countAttrs(parse'.args)]_vars

\* A list of a key, its value and a lone last string has been parsed.
C28_Witness ==
    /\ parse.pc = "done"
    /\ parse.args = <<StrItem("k"), IntItem("7"), StrItem("k")>>
    /\ parse.attrs = <<Any("k", IntItem("7")), String(badKey, "k")>>

\* No Set call is between its two stores.
NoSetInProgress == \A g \in Goroutines : sets.go[g].pc # "writer"

\* C29: the sink cell stays self-consistent under concurrent use.  No Set,
\* Discard, Output or Write call panics, and whenever no Set call is in
\* progress Discard() is true exactly when the stored writer is nil or
\* io.Discard.
C29_SinkCellConsistent ==
    /\ ~sets.last.panicked
    /\ NoSetInProgress =>
          (Discard(outputVar) <=> outputVar.writer \in {"unset", NilWriter, DiscardWriter})

\* l.Level() and l.Output() of logger l.
LevelOf(f, l) == LevelVar_Level(f.level[f.of[l].level])

OutputOf(f, l) == Output(f.output[f.of[l].output])

SameFamily(f, a, b) == f.of[a].root = f.of[b].root

\* Level() and Output() agree on all loggers of one family.
FamilyAgrees(f) ==
    \A a, b \in DOMAIN f.of :
       SameFamily(f, a, b) => (LevelOf(f, a) = LevelOf(f, b) /\ OutputOf(f, a) = OutputOf(f, b))

\* C30 as stated: the loggers of a family agree on Level() and Output()
\* after every call, no logger shares its level or sink cell with a logger
\* outside its family, and SetLevel / SetOutput on a logger leaves Level()
\* and Output() of the loggers outside its family as they were.
C30_FamilySharesCells ==
    [][/\ FamilyAgrees(fam')
       /\ \A a, b \in DOMAIN fam'.of :
             ~SameFamily(fam', a, b) =>
                 /\ fam'.of[a].level # fam'.of[b].level
                 /\ fam'.of[a].output # fam'.of[b].output
       /\ fam'.last.op \in {"SetLevel", "SetOutput"} =>
             \A m \in DOMAIN fam.of :
                ~SameFamily(fam, m, fam'.last.l) =>
                    (LevelOf(fam', m) = LevelOf(fam, m) /\ OutputOf(fam', m) = OutputOf(fam, m))]_vars

\* Two loggers were handed the same *OutputVar by the program.
OverSameOutputVar(f, a, b) ==
    f.of[a].output = f.of[b].output /\ f.user[f.of[a].output]

\* C30, amended: the loggers of a family agree on Level() and Output()
\* after every call; loggers of different families never share a level
\* cell, and share a sink cell only when their New calls were given the
\* same *OutputVar; SetLevel leaves Level() of every logger outside the
\* family as it was, and SetOutput leaves Output() as it was on every
\* logger outside the family whose New was not given that *OutputVar.
C30_FamilySharesOwnCells ==
    [][/\ FamilyAgrees(fam')
       /\ \A a, b \in DOMAIN fam'.of :
             ~SameFamily(fam', a, b) =>
                 /\ fam'.of[a].level # fam'.of[b].level
                 /\ fam'.of[a].output = fam'.of[b].output => fam'.user[fam'.of[a].output]
       /\ fam'.last.op \in {"SetLevel", "SetOutput"} =>
             \A m \in DOMAIN fam.of :
                ~SameFamily(fam, m, fam'.last.l) =>
                    /\ LevelOf(fam', m) = LevelOf(fam, m)
                    /\ ~OverSameOutputVar(fam, m, fam'.last.l) =>
                          OutputOf(fam', m) = OutputOf(fam, m)]_vars

\* SetOutput was called on a derived logger, its parent follows, and a
\* logger of another New call keeps its own level and sink.
C30_Witness ==
    /\ fam.last.op = "SetOutput"
    /\ \E a, b, c \in DOMAIN fam.of :
          /\ a # b /\ SameFamily(fam, a, b) /\ ~SameFamily(fam, a, c)
          /\ fam.last.l = b /\ fam.of[b].root = a
          /\ OutputOf(fam, a) = "buf2"
          /\ OutputOf(fam, c) = "buf1"
          /\ LevelOf(fam, a) = LevelWarn
          /\ LevelOf(fam, c) = LevelDebug

=============================================================================
